---- MODULE Spec2Model ----
(***************************************************************************)
(* monapi: query translation and CRUD orchestration engine.                *)
(*                                                                         *)
(* The module models, from the TypeScript sources,                         *)
(*   - the permission evaluator   (core/permission-checker.ts),            *)
(*   - the filter predicate parser (engine/filter-parser.ts),              *)
(*   - the query descriptor builder (engine/query-builder.ts),             *)
(*   - the CRUD operations and the transport adapters that sequence them   *)
(*     (core/crud-operations.ts, adapters/framework/express.ts, hono.ts).  *)
(*                                                                         *)
(* Strings of the program whose characters the code inspects (query keys,  *)
(* query values, sort and field lists) are sequences of one-character      *)
(* strings, so that indexOf, startsWith, split, trim, parseInt and the     *)
(* regular expressions are computed as the code computes them.             *)
(***************************************************************************)
EXTENDS Integers, Sequences, FiniteSets, TLC

VARIABLES
    perm,       \* the checkPermissions call: its inputs and what it did
    fp,         \* the parseFilters call: its inputs and its result
    qb,         \* the buildQuery call: its inputs and its result
    req,        \* the request in flight through a transport adapter
    store       \* the calls the request has made to the store driver

vars == <<perm, fp, qb, req, store>>

(***************************************************************************)
(* JavaScript values that several parts share.                             *)
(***************************************************************************)
Undefined == "undefined"

\* a component that is not running a call
Idle == [pc |-> "idle"]
\* the store driver has not been called
NoCalls == <<>>

\* utils/errors.ts: the typed errors, by name, status code, code string, message
\* and details (undefined unless the constructor is given some)
MonapiError(name, statusCode, code, message) ==
    [name |-> name, statusCode |-> statusCode, code |-> code, message |-> message,
     details |-> Undefined]
WithDetails(error, details) == [error EXCEPT !.details = details]
\* message: id ? `${resource} with id '${id}' not found` : `${resource} not found`
NotFoundError(resource, id) ==
    MonapiError("NotFoundError", 404, "NOT_FOUND",
                IF id # "" THEN resource \o " with id '" \o id \o "' not found"
                ELSE resource \o " not found")
ValidationError(message) == MonapiError("ValidationError", 400, "VALIDATION_ERROR", message)
ForbiddenError == MonapiError("ForbiddenError", 403, "FORBIDDEN", "Access denied")
UnauthorizedError == MonapiError("UnauthorizedError", 401, "UNAUTHORIZED", "Authentication required")
BadRequest(message) == MonapiError("BadRequestError", 400, "BAD_REQUEST", message)
\* an error that is no MonapiError: a TypeError, or whatever user code throws
UntypedError(message) == [name |-> "Error", message |-> message]
NoError == [name |-> "none"]

(***************************************************************************)
(* STRINGS: sequences of one-character strings                             *)
(***************************************************************************)
\* The string literals of the sources and of the inputs, by name: the operator
\* names and reserved parameters of filter-parser.ts, 'true' and 'false', the
\* property names every object literal inherits from Object.prototype, and the
\* field names, operator names and values requests are made of.
S ==
    [eq |-> <<"e", "q">>,
     ne |-> <<"n", "e">>,
     gt |-> <<"g", "t">>,
     gte |-> <<"g", "t", "e">>,
     lt |-> <<"l", "t">>,
     lte |-> <<"l", "t", "e">>,
     in |-> <<"i", "n">>,
     nin |-> <<"n", "i", "n">>,
     like |-> <<"l", "i", "k", "e">>,
     exists |-> <<"e", "x", "i", "s", "t", "s">>,
     page |-> <<"p", "a", "g", "e">>,
     limit |-> <<"l", "i", "m", "i", "t">>,
     sort |-> <<"s", "o", "r", "t">>,
     fields |-> <<"f", "i", "e", "l", "d", "s">>,
     filter |-> <<"f", "i", "l", "t", "e", "r">>,
     true |-> <<"t", "r", "u", "e">>,
     false |-> <<"f", "a", "l", "s", "e">>,
     constructor |-> <<"c", "o", "n", "s", "t", "r", "u", "c", "t", "o", "r">>,
     toString |-> <<"t", "o", "S", "t", "r", "i", "n", "g">>,
     valueOf |-> <<"v", "a", "l", "u", "e", "O", "f">>,
     hasOwnProperty |-> <<"h", "a", "s", "O", "w", "n", "P", "r", "o", "p", "e", "r", "t", "y">>,
     isPrototypeOf |-> <<"i", "s", "P", "r", "o", "t", "o", "t", "y", "p", "e", "O", "f">>,
     propertyIsEnumerable |-> <<"p", "r", "o", "p", "e", "r", "t", "y", "I", "s", "E", "n", "u", "m", "e", "r", "a", "b", "l", "e">>,
     toLocaleString |-> <<"t", "o", "L", "o", "c", "a", "l", "e", "S", "t", "r", "i", "n", "g">>,
     proto |-> <<"_", "_", "p", "r", "o", "t", "o", "_", "_">>,
     age |-> <<"a", "g", "e">>,
     name |-> <<"n", "a", "m", "e">>,
     born |-> <<"b", "o", "r", "n">>,
     active |-> <<"a", "c", "t", "i", "v", "e">>,
     dollarWhere |-> <<"$", "w", "h", "e", "r", "e">>,
     badop |-> <<"b", "a", "d", "o", "p">>,
     dollarGt |-> <<"$", "g", "t">>,
     date |-> <<"2", "0", "2", "0", "-", "0", "1", "-", "0", "5">>,
     secret |-> <<"s", "e", "c", "r", "e", "t">>,
     role |-> <<"r", "o", "l", "e">>,
     dollarSet |-> <<"$", "s", "e", "t">>,
     undefined |-> <<"u", "n", "d", "e", "f", "i", "n", "e", "d">>]

Digits == {"0", "1", "2", "3", "4", "5", "6", "7", "8", "9"}

DigitVal(c) ==
    CASE c = "0" -> 0 [] c = "1" -> 1 [] c = "2" -> 2 [] c = "3" -> 3 [] c = "4" -> 4
      [] c = "5" -> 5 [] c = "6" -> 6 [] c = "7" -> 7 [] c = "8" -> 8 [] c = "9" -> 9

AllDigits(s) == \A i \in 1..Len(s) : s[i] \in Digits

\* the value of a string of decimal digits (0 for the empty string)
RECURSIVE DigitsValue(_)
DigitsValue(s) ==
    IF s = <<>> THEN 0
    ELSE 10 * DigitsValue(SubSeq(s, 1, Len(s) - 1)) + DigitVal(s[Len(s)])

\* str.startsWith(c) for a one-character c
StartsWith(s, c) == Len(s) > 0 /\ s[1] = c

\* str.indexOf(c), 1-based; 0 where JavaScript returns -1
IndexOf(s, c) ==
    IF \E i \in 1..Len(s) : s[i] = c
    THEN CHOOSE i \in 1..Len(s) : s[i] = c /\ \A j \in 1..(i - 1) : s[j] # c
    ELSE 0

\* str.indexOf(c + c), 1-based; 0 where JavaScript returns -1
IndexOfPair(s, c) ==
    IF \E i \in 1..(Len(s) - 1) : s[i] = c /\ s[i + 1] = c
    THEN CHOOSE i \in 1..(Len(s) - 1) :
             /\ s[i] = c /\ s[i + 1] = c
             /\ \A j \in 1..(i - 1) : ~(s[j] = c /\ s[j + 1] = c)
    ELSE 0

RECURSIVE TrimStart(_)
TrimStart(s) == IF Len(s) > 0 /\ s[1] = " " THEN TrimStart(Tail(s)) ELSE s

RECURSIVE TrimEnd(_)
TrimEnd(s) ==
    IF Len(s) > 0 /\ s[Len(s)] = " " THEN TrimEnd(SubSeq(s, 1, Len(s) - 1)) ELSE s

\* str.trim()
Trim(s) == TrimEnd(TrimStart(s))

\* str.split(c): the pieces between the occurrences of c, empty pieces kept
RECURSIVE Split(_, _)
Split(s, c) ==
    LET i == IndexOf(s, c)
    IN  IF i = 0 THEN <<s>>
        ELSE <<SubSeq(s, 1, i - 1)>> \o Split(SubSeq(s, i + 1, Len(s)), c)

\* array.map(s => s.trim())
MapTrim(pieces) == [i \in 1..Len(pieces) |-> Trim(pieces[i])]

\* A number: mant / 10^scale, with no trailing zero in the fraction.
NaN == [t |-> "NaN"]
NumV(mant, scale) == [t |-> "number", mant |-> mant, scale |-> scale]
IntV(n) == NumV(n, 0)

RECURSIVE StripZeros(_)
StripZeros(s) ==
    IF Len(s) > 0 /\ s[Len(s)] = "0" THEN StripZeros(SubSeq(s, 1, Len(s) - 1)) ELSE s

\* the number written as [-]int[.frac]
DecimalValue(neg, int, frac) ==
    LET f == StripZeros(frac)
        m == DigitsValue(int \o f)
    IN  NumV(IF neg THEN 0 - m ELSE m, Len(f))

\* Number(str): white space trimmed, the empty string is 0, a decimal literal
\* (sign, digits, optional fraction) is its value, anything else is NaN.
\* Exponent, radix-prefixed and Infinity literals are not among the inputs.
Number(str) ==
    LET s == Trim(str)
        signed == Len(s) > 0 /\ s[1] \in {"-", "+"}
        body == IF signed THEN Tail(s) ELSE s
        dot == IndexOf(body, ".")
        int == IF dot = 0 THEN body ELSE SubSeq(body, 1, dot - 1)
        frac == IF dot = 0 THEN <<>> ELSE SubSeq(body, dot + 1, Len(body))
    IN  IF s = <<>> THEN IntV(0)
        ELSE IF AllDigits(int) /\ AllDigits(frac) /\ Len(int) + Len(frac) > 0
        THEN DecimalValue(signed /\ s[1] = "-", int, frac)
        ELSE NaN

\* /^-?\d+(\.\d+)?$/.test(str)
IsNumericPattern(str) ==
    LET body == IF StartsWith(str, "-") THEN Tail(str) ELSE str
        dot == IndexOf(body, ".")
        int == IF dot = 0 THEN body ELSE SubSeq(body, 1, dot - 1)
        frac == IF dot = 0 THEN <<>> ELSE SubSeq(body, dot + 1, Len(body))
    IN  /\ Len(int) > 0 /\ AllDigits(int)
        /\ dot # 0 => (Len(frac) > 0 /\ AllDigits(frac))

\* parseInt(str, 10): leading white space skipped, an optional sign, then the
\* longest run of digits; NaN when there is none. undefined reads as "undefined".
ParseIntDigits(s) ==
    IF \E i \in 1..Len(s) : s[i] \notin Digits
    THEN SubSeq(s, 1, (CHOOSE i \in 1..Len(s) :
                          s[i] \notin Digits /\ \A j \in 1..(i - 1) : s[j] \in Digits) - 1)
    ELSE s

parseInt(str) ==
    LET s == TrimStart(str)
        signed == Len(s) > 0 /\ s[1] \in {"-", "+"}
        ds == ParseIntDigits(IF signed THEN Tail(s) ELSE s)
    IN  IF ds = <<>> THEN NaN
        ELSE IntV(IF signed /\ s[1] = "-" THEN 0 - DigitsValue(ds) ELSE DigitsValue(ds))

\* /^\d{4}-\d{2}-\d{2}(T\d{2}:\d{2}:\d{2})?/.test(str): a prefix match
IsIsoDatePattern(str) ==
    /\ Len(str) >= 10
    /\ AllDigits(SubSeq(str, 1, 4)) /\ str[5] = "-"
    /\ AllDigits(SubSeq(str, 6, 7)) /\ str[8] = "-"
    /\ AllDigits(SubSeq(str, 9, 10))

\* the date-only ISO form YYYY-MM-DD with a month and a day that exist
IsIsoDate(str) ==
    /\ Len(str) = 10 /\ IsIsoDatePattern(str)
    /\ DigitsValue(SubSeq(str, 6, 7)) \in 1..12
    /\ DigitsValue(SubSeq(str, 9, 10)) \in 1..31

\* !isNaN(new Date(str).getTime()). The ISO form is parsed as the language
\* defines; any other string holding a digit falls to the engine's own
\* date parser, whose answer (legacy) the language leaves open; a string with
\* no digit is no date.
DateValid(str, legacy) ==
    IF IsIsoDate(str) THEN TRUE
    ELSE IF \E i \in 1..Len(str) : str[i] \in Digits THEN legacy
    ELSE FALSE

(***************************************************************************)
(* PERMISSION EVALUATOR                                                    *)
(***************************************************************************)
Roles == {"admin", "user"}
RouteOps == {"list", "get", "create", "update", "patch", "delete"}

\* types/permissions.ts: Permission = 'public' | string[] | PermissionFunction
PublicRule == [kind |-> "public", roles |-> {}]
RolesRule(rs) == [kind |-> "roles", roles |-> rs]
FunctionRule == [kind |-> "function", roles |-> {}]
NoRule == [kind |-> "undefined", roles |-> {}]
Rules == {PublicRule, FunctionRule, NoRule} \cup {RolesRule(rs) : rs \in SUBSET Roles}

\* types/hooks.ts User: roles is optional; req.user may be absent
NoUser == [present |-> FALSE, hasRoles |-> FALSE, roles |-> {}]
Users == {NoUser}
         \cup {[present |-> TRUE, hasRoles |-> TRUE, roles |-> rs] : rs \in SUBSET Roles}
         \cup {[present |-> TRUE, hasRoles |-> FALSE, roles |-> {}]}

\* what a custom permission function may do when it is awaited
FnResults == {"true", "false", "throw"}

ROUTE_TO_CRUD ==
    [list |-> "find", get |-> "find", create |-> "create",
     update |-> "update", patch |-> "patch", delete |-> "delete"]

\* A PermissionConfig: absent as a whole, or one rule (possibly none) per route op.
NoPermissions == [present |-> FALSE, rules |-> [o \in RouteOps |-> NoRule]]
PermissionConfigOf(o1, r1, r2) ==
    [present |-> TRUE, rules |-> [o \in RouteOps |-> IF o = o1 THEN r1 ELSE r2]]

\* role lists: permission.some(role => ctx.user.roles?.includes(role)), with
\* every() in place of some()
evaluateRolesEvery(permission, user) ==
    IF ~user.hasRoles \/ user.roles = {} THEN FALSE
    ELSE \A role \in permission.roles : role \in user.roles

evaluateRoles(permission, user) ==
    IF ~user.hasRoles \/ user.roles = {} THEN FALSE
    ELSE \E role \in permission.roles : role \in user.roles

\* evaluatePermission: the value the awaited call yields ("throw" when the custom
\* function throws or rejects), and how often the custom function was invoked.
evaluatePermission(permission, user, fnResult) ==
    IF permission.kind = "roles"
    THEN [value |-> IF evaluateRoles(permission, user) THEN "true" ELSE "false", calls |-> 0]
    ELSE IF permission.kind = "function"
    THEN [value |-> fnResult, calls |-> 1]
    ELSE [value |-> "false", calls |-> 0]

\* the value of `allowed` had the call not been awaited: a Promise, which is truthy
allowedNotAwaited(ev) == IF ev.value = "throw" THEN "throw" ELSE "true"

\* const allowed = await evaluatePermission(...)
allowedAwaited(ev) == ev.value

\* a check that takes every operation to have a rule
RuleAbsentNever(permission) == FALSE

\* if (!permission) return
RuleAbsent(permission) == permission.kind = "undefined"

\* the route operation handed on as it is
crudOpOfRoute(routeOp) == routeOp

\* const crudOp = ROUTE_TO_CRUD[routeOp] || routeOp
crudOpOf(routeOp) ==
    IF routeOp \in DOMAIN ROUTE_TO_CRUD THEN ROUTE_TO_CRUD[routeOp] ELSE routeOp

\* checkPermissions(req, collection, routeOp, permissions): "allow" or the error
\* thrown, the number of invocations of the custom function and the operation
\* name handed to it.
checkPermissions(user, routeOp, permissions, fnResult) ==
    LET permission == permissions.rules[routeOp]
        ev == evaluatePermission(permission, user, fnResult)
        allowed == allowedAwaited(ev)
    IN  IF ~permissions.present THEN [outcome |-> "allow", calls |-> 0, crudOp |-> Undefined]
        ELSE IF RuleAbsent(permission)
        THEN [outcome |-> "allow", calls |-> 0, crudOp |-> Undefined]
        ELSE IF ~user.present
        THEN [outcome |-> "UnauthorizedError", calls |-> 0, crudOp |-> Undefined]
        ELSE [outcome |-> IF allowed = "throw" THEN "Error"
                          ELSE IF allowed = "true" THEN "allow" ELSE "ForbiddenError",
              calls |-> ev.calls,
              crudOp |-> IF ev.calls > 0 THEN crudOpOf(routeOp) ELSE Undefined]

\* One call of checkPermissions on inputs of the caller's choosing.
CheckPermissionsCall(user, routeOp, permissions, fnResult) ==
    LET r == checkPermissions(user, routeOp, permissions, fnResult)
    IN  /\ perm.pc = "idle"
        /\ perm' = [pc |-> "done", user |-> user, routeOp |-> routeOp,
                    permissions |-> permissions,
                    fnResult |-> IF r.calls > 0 THEN fnResult ELSE Undefined,
                    outcome |-> r.outcome, calls |-> r.calls, crudOp |-> r.crudOp]
        /\ UNCHANGED <<fp, qb, req, store>>

\* The caller has taken the outcome; the next call may start.
CheckPermissionsReturn ==
    /\ perm.pc = "done"
    /\ perm' = Idle
    /\ UNCHANGED <<fp, qb, req, store>>

InitPerm ==
    /\ perm = Idle
    /\ fp = Idle
    /\ qb = Idle
    /\ req = Idle
    /\ store = NoCalls

OtherRules == {NoRule, RolesRule({"admin"})}

NextPerm ==
    \/ CheckPermissionsReturn
    \/ perm.pc = "idle" /\
       \E user \in Users, routeOp \in RouteOps, o1 \in RouteOps, r1 \in Rules,
          r2 \in OtherRules, fnResult \in FnResults, present \in BOOLEAN :
        CheckPermissionsCall(user, routeOp,
            IF present THEN PermissionConfigOf(o1, r1, r2) ELSE NoPermissions, fnResult)

SpecPerm == InitPerm /\ [][NextPerm]_vars

\* the rule the finished call looked up
PermRule == perm.permissions.rules[perm.routeOp]
PermDone == perm.pc = "done" /\ perm.permissions.present

\* C1: whenever the rule of the route operation is the 'public' marker,
\* checkPermissions allows the request, with or without a user.
C1_PublicAlwaysAllowed ==
    (PermDone /\ PermRule.kind = "public") => perm.outcome = "allow"

\* C2: with a role list as rule: no user -> Unauthorized; a user whose roles are
\* absent, empty or disjoint from the list -> Forbidden; a user holding a listed
\* role -> allowed; and there is no other outcome.
C2_RoleListOutcomes ==
    (PermDone /\ PermRule.kind = "roles") =>
        /\ ~perm.user.present => perm.outcome = "UnauthorizedError"
        /\ (perm.user.present /\ (~perm.user.hasRoles \/ perm.user.roles \cap PermRule.roles = {}))
               => perm.outcome = "ForbiddenError"
        /\ (perm.user.present /\ perm.user.hasRoles /\ perm.user.roles \cap PermRule.roles # {})
               => perm.outcome = "allow"
        /\ perm.outcome \in {"UnauthorizedError", "ForbiddenError", "allow"}
        /\ perm.calls = 0

C2_Witness ==
    /\ PermDone /\ PermRule = RolesRule({"admin"})
    /\ perm.user.present /\ perm.user.roles = {"admin", "user"}
    /\ perm.outcome = "allow"

\* C3: with a custom function as rule: without a user the function is never
\* invoked and the call fails with Unauthorized; with a user it is invoked exactly
\* once and its awaited result decides: true -> allowed, false -> Forbidden.
C3_CustomPredicate ==
    (PermDone /\ PermRule.kind = "function") =>
        /\ ~perm.user.present => (perm.calls = 0 /\ perm.outcome = "UnauthorizedError")
        /\ perm.user.present =>
              /\ perm.calls = 1
              /\ perm.outcome = "allow" <=> perm.fnResult = "true"
              /\ perm.fnResult = "false" => perm.outcome = "ForbiddenError"

C3_Witness ==
    /\ PermDone /\ PermRule.kind = "function"
    /\ perm.user.present /\ perm.calls = 1
    /\ perm.fnResult = "false" /\ perm.outcome = "ForbiddenError"

\* C21: without a permission configuration, or without a rule for the route
\* operation, checkPermissions allows the request, whoever the user is and
\* without one, whatever rules the other operations have; the custom function
\* of no rule is invoked.
C21_NoRuleAllows ==
    (perm.pc = "done" /\ (~perm.permissions.present \/ PermRule.kind = "undefined")) =>
        (perm.outcome = "allow" /\ perm.calls = 0)

\* no user, no rule for the operation, a role list for every other operation
C21_Witness ==
    /\ PermDone /\ ~perm.user.present /\ perm.routeOp = "delete"
    /\ PermRule = NoRule
    /\ \A o \in RouteOps \ {"delete"} : perm.permissions.rules[o] = RolesRule({"admin"})
    /\ perm.outcome = "allow"

\* C22: the rule that decides is the one under the route operation's own name
\* (a rule under list does not act on get, nor one under get on list), and the
\* operation handed to a custom function is find for list and for get, and
\* the route operation's own name for create, update, patch and delete.
C22_OperationNames ==
    (PermDone /\ perm.user.present) =>
        /\ perm.calls = 1 <=> PermRule.kind = "function"
        /\ perm.calls = 1 =>
              perm.crudOp = IF perm.routeOp \in {"list", "get"} THEN "find"
                            ELSE perm.routeOp
        /\ PermRule.kind = "undefined" => perm.outcome = "allow"
        /\ PermRule.kind = "roles" =>
              (perm.outcome = "allow" <=> perm.user.roles \cap PermRule.roles # {})

\* a custom function under get, a role list under list: get is decided by the
\* function, which is told find
C22_Witness ==
    /\ PermDone /\ perm.routeOp = "get" /\ PermRule.kind = "function"
    /\ perm.permissions.rules["list"] = RolesRule({"admin"})
    /\ perm.user.present /\ perm.user.roles = {"user"}
    /\ perm.calls = 1 /\ perm.crudOp = "find" /\ perm.outcome = "allow"

(***************************************************************************)
(* the three permission gates on the same request                          *)
(***************************************************************************)

\* checkPermission (middleware/auth): a role list or a custom function;
\* anything else, the 'public' marker included, is false
checkPermission(permission, user, fnResult) ==
    IF permission.kind = "roles"
    THEN (IF ~user.hasRoles \/ user.roles = {} THEN "false"
          ELSE IF \E role \in permission.roles : role \in user.roles THEN "true"
          ELSE "false")
    ELSE IF permission.kind = "function" THEN fnResult
    ELSE "false"

\* createPermissionMiddleware of the legacy router: next() is "allow",
\* next(error) the name of the error
createPermissionMiddleware(user, routeOp, permissions, fnResult) ==
    LET permission == permissions.rules[routeOp]
        allowed == checkPermission(permission, user, fnResult)
    IN  IF ~permissions.present THEN "allow"
        ELSE IF permission.kind = "undefined" THEN "allow"
        ELSE IF ~user.present THEN "UnauthorizedError"
        ELSE IF allowed = "throw" THEN "Error"
        ELSE IF allowed = "true" THEN "allow"
        ELSE "ForbiddenError"

\* the permission entry of the Express adapter's stack: there when permissions
\* are configured
ExpressPermissionGate(user, routeOp, permissions, fnResult) ==
    IF permissions.present
    THEN checkPermissions(user, routeOp, permissions, fnResult).outcome
    ELSE "allow"

\* the Hono route handler: a 'public' operation runs neither the auth
\* middleware (no user is set) nor the check
HonoPermissionGate(user, routeOp, permissions, fnResult) ==
    LET isPublic == permissions.present /\ permissions.rules[routeOp] = PublicRule
    IN  IF permissions.present /\ ~isPublic
        THEN checkPermissions(user, routeOp, permissions, fnResult).outcome
        ELSE "allow"

\* One request put to the three gates.
PermissionGatesCall(user, routeOp, permissions, fnResult) ==
    /\ perm.pc = "idle"
    /\ perm' = [pc |-> "gates", user |-> user, routeOp |-> routeOp,
                permissions |-> permissions, fnResult |-> fnResult,
                core |-> ExpressPermissionGate(user, routeOp, permissions, fnResult),
                legacy |-> createPermissionMiddleware(user, routeOp, permissions, fnResult),
                hono |-> HonoPermissionGate(user, routeOp, permissions, fnResult)]
    /\ UNCHANGED <<fp, qb, req, store>>

PermissionGatesReturn ==
    /\ perm.pc = "gates"
    /\ perm' = Idle
    /\ UNCHANGED <<fp, qb, req, store>>

NextGates ==
    \/ PermissionGatesReturn
    \/ perm.pc = "idle" /\
       \E user \in Users, routeOp \in RouteOps, r1 \in Rules, r2 \in OtherRules,
          fnResult \in FnResults, present \in BOOLEAN :
        PermissionGatesCall(user, routeOp,
            IF present THEN PermissionConfigOf(routeOp, r1, r2) ELSE NoPermissions, fnResult)

SpecGates == InitPerm /\ [][NextGates]_vars

\* C34: the permission gate of the Express adapter, that of the legacy router
\* and that of the Hono handler reach the same decision for every rule and
\* every user, and all three serve an unauthenticated request to a 'public'
\* operation.
C34_GatesAgree ==
    perm.pc = "gates" =>
        /\ perm.core = perm.legacy
        /\ perm.legacy = perm.hono
        /\ (perm.permissions.rules[perm.routeOp] = PublicRule /\ ~perm.user.present)
              => (perm.core = "allow" /\ perm.legacy = "allow" /\ perm.hono = "allow")

(***************************************************************************)
(* FILTER PREDICATE PARSER                                                 *)
(***************************************************************************)

\* the own keys of OPERATOR_MAP
OperatorNames == {S.eq, S.ne, S.gt, S.gte, S.lt, S.lte, S.in, S.nin, S.like, S.exists}

\* OPERATOR_MAP[operator] for an own key
OPERATOR_MAP(operator) ==
    CASE operator = S.eq -> "$eq" [] operator = S.ne -> "$ne"
      [] operator = S.gt -> "$gt" [] operator = S.gte -> "$gte"
      [] operator = S.lt -> "$lt" [] operator = S.lte -> "$lte"
      [] operator = S.in -> "$in" [] operator = S.nin -> "$nin"
      [] operator = S.like -> "$regex" [] operator = S.exists -> "$exists"

\* OPERATOR_MAP is an object literal: the properties it inherits from
\* Object.prototype, and what each one reads as when used as a property key
ObjectPrototypeKeys ==
    {S.constructor, S.toString, S.valueOf, S.hasOwnProperty, S.isPrototypeOf,
     S.propertyIsEnumerable, S.toLocaleString, S.proto}

InheritedKey(operator) ==
    CASE operator = S.proto -> "[object Object]"
      [] operator = S.constructor -> "function Object() { [native code] }"
      [] operator = S.toString -> "function toString() { [native code] }"
      [] operator = S.valueOf -> "function valueOf() { [native code] }"
      [] operator = S.hasOwnProperty -> "function hasOwnProperty() { [native code] }"
      [] operator = S.isPrototypeOf -> "function isPrototypeOf() { [native code] }"
      [] operator = S.propertyIsEnumerable -> "function propertyIsEnumerable() { [native code] }"
      [] operator = S.toLocaleString -> "function toLocaleString() { [native code] }"
      [] OTHER -> "undefined"

\* the property key that `filter[field][OPERATOR_MAP[operator]] = value` writes
MongoOp(operator) ==
    IF operator \in OperatorNames THEN OPERATOR_MAP(operator) ELSE InheritedKey(operator)

\* `operator in OPERATOR_MAP`: the in operator also finds inherited properties
InOperatorMap(operator) == operator \in OperatorNames \cup ObjectPrototypeKeys

RESERVED_PARAMS == {S.page, S.limit, S.sort, S.fields, S.filter}

DEFAULT_MAX_REGEX_LENGTH == 100
DEFAULT_MAX_FILTERS == 20

\* raw values of a query object
UndefV == [t |-> "undefined"]
StrV(s) == [t |-> "string", s |-> s]
ObjV(entries) == [t |-> "object", entries |-> entries]

\* coerced values of a predicate
BoolV(b) == [t |-> "boolean", b |-> b]
DateV(iso) == [t |-> "date", iso |-> iso, props |-> <<>>]
ArrayV(items) == [t |-> "array", items |-> items]
RegExpV(source) == [t |-> "regexp", source |-> source, flags |-> "i"]
OpsV(ops) == [t |-> "ops", ops |-> ops]

\* FieldType (types/query.ts); "undefined" when there is no adapter
FieldTypes == {"string", "number", "boolean", "date", "objectid", "array", "object", "mixed"}

\* an optional list of names (allowedFilters, allowedSorts, adapter.getFields())
NoList == [present |-> FALSE, list |-> {}]
ListOf(names) == [present |-> TRUE, list |-> names]

\* a schema adapter: getFields() and getFieldType(); Mixed for an unknown path
NoAdapter == [present |-> FALSE, fields |-> {}, types |-> <<>>]
AdapterOf(types) == [present |-> TRUE, fields |-> DOMAIN types, types |-> types]

getFieldType(adapter, field) ==
    IF ~adapter.present THEN Undefined
    ELSE IF field \in DOMAIN adapter.types THEN adapter.types[field] ELSE "mixed"

getFields(adapter) == IF adapter.present THEN ListOf(adapter.fields) ELSE NoList

\* queryConfig?.allowedFilters ?? adapter?.getFields()
AllowedFields(queryConfig, adapter) ==
    IF queryConfig.present /\ queryConfig.allowedFilters.present
    THEN queryConfig.allowedFilters
    ELSE getFields(adapter)

\* parseParamKey: split at the first "__"
parseParamKey(key) ==
    LET doubleUnderscoreIndex == IndexOfPair(key, "_")
    IN  IF doubleUnderscoreIndex = 0 THEN [field |-> key, operator |-> S.eq]
        ELSE [field |-> SubSeq(key, 1, doubleUnderscoreIndex - 1),
              operator |-> SubSeq(key, doubleUnderscoreIndex + 2, Len(key))]

\* validateField: the error it throws, or NoError
validateField(field, allowedFields) ==
    IF StartsWith(field, "$") THEN BadRequest("Invalid filter field")
    ELSE IF allowedFields.present /\ field \notin allowedFields.list
    THEN BadRequest("Filtering on field is not allowed")
    ELSE NoError

\* validateOperator: the error it throws, or NoError
validateOperator(operator) ==
    IF ~InOperatorMap(operator) THEN BadRequest("Unsupported filter operator") ELSE NoError

\* escapeRegex: a backslash before each of . * + ? ^ $ { } ( ) | [ ] \
RegexSpecials == {".", "*", "+", "?", "^", "$", "{", "}", "(", ")", "|", "[", "]", "\\"}

RECURSIVE escapeRegex(_)
escapeRegex(str) ==
    IF str = <<>> THEN <<>>
    ELSE (IF str[1] \in RegexSpecials THEN <<"\\", str[1]>> ELSE <<str[1]>>)
         \o escapeRegex(Tail(str))

\* a parser that leaves every value the string it was sent as
coerceSingleValueRaw(str, fieldType, legacy) == StrV(str)
\* coerceSingleValue
coerceSingleValue(str, fieldType, legacy) ==
    LET num == Number(str)
        typed ==
            IF fieldType = "number" /\ num # NaN THEN num
            ELSE IF fieldType = "boolean" /\ str \in {S.true, <<"1">>} THEN BoolV(TRUE)
            ELSE IF fieldType = "boolean" /\ str \in {S.false, <<"0">>} THEN BoolV(FALSE)
            ELSE IF fieldType = "date" /\ DateValid(str, legacy) THEN DateV(str)
            ELSE UndefV
    IN  IF typed # UndefV THEN typed
        ELSE IF IsNumericPattern(str) THEN Number(str)
        ELSE IF str = S.true THEN BoolV(TRUE)
        ELSE IF str = S.false THEN BoolV(FALSE)
        ELSE IF IsIsoDatePattern(str) /\ DateValid(str, legacy) THEN DateV(str)
        ELSE StrV(str)

\* coerceValue: the value, or the error thrown for an oversized pattern
coerceValue(raw, operator, fieldType, maxRegexLength, legacy) ==
    IF operator \in {S.in, S.nin}
    THEN LET items == MapTrim(Split(raw, ","))
         IN  [error |-> NoError,
              value |-> ArrayV([i \in 1..Len(items) |->
                                   coerceSingleValue(items[i], fieldType, legacy)])]
    ELSE IF operator = S.exists
    THEN [error |-> NoError, value |-> BoolV(raw = S.true \/ raw = <<"1">>)]
    ELSE IF operator = S.like
    THEN IF Len(raw) > maxRegexLength
         THEN [error |-> BadRequest("Regex pattern too long"), value |-> UndefV]
         ELSE [error |-> NoError, value |-> RegExpV(escapeRegex(raw))]
    ELSE [error |-> NoError, value |-> coerceSingleValue(raw, fieldType, legacy)]

\* JavaScript truthiness and typeof of what filter[field] holds
Falsy(v) ==
    \/ v.t = "undefined"
    \/ v.t = "number" /\ v.mant = 0
    \/ v.t = "boolean" /\ ~v.b
    \/ v.t = "string" /\ v.s = <<>>

TypeofObject(v) == v.t \in {"ops", "date", "array", "regexp"}

FilterGet(filter, field) == IF field \in DOMAIN filter THEN filter[field] ELSE UndefV

\* obj[key] = value on what filter[field] holds: a plain object of operators,
\* or a Date, which takes the stray property and stays a Date
SetProp(obj, key, value) ==
    IF obj.t = "ops" THEN OpsV((key :> value) @@ obj.ops)
    ELSE IF obj.t = "date" THEN [obj EXCEPT !.props = (key :> value) @@ obj.props]
    ELSE obj

\* applyFilter: the filter object after the call, or the error thrown
applyFilter(filter, field, operator, rawValue, fieldType, maxRegexLength, legacy) ==
    LET mongoOp == MongoOp(operator)
        cur == FilterGet(filter, field)
        base == IF Falsy(cur) \/ ~TypeofObject(cur) THEN OpsV(<<>>) ELSE cur
        Assign(c) ==
            IF c.error # NoError THEN [error |-> c.error, filter |-> filter]
            ELSE IF operator = S.eq
            THEN [error |-> NoError, filter |-> (field :> c.value) @@ filter]
            ELSE [error |-> NoError,
                  filter |-> (field :> SetProp(base, mongoOp, c.value)) @@ filter]
    IN  Assign(coerceValue(rawValue, operator, fieldType, maxRegexLength, legacy))

\* a parser that never finds too many conditions
TooManyNever(filterCount, maxFilters) == FALSE
\* if (++filterCount > maxFilters): filterCount is the count after the increment
TooMany(filterCount, maxFilters) == filterCount > maxFilters

\* One filter condition: count it, validate the operator, apply it.
\* acc = [filter, filterCount, error]; nothing happens once an error is thrown.
Condition(acc, field, operator, rawValue, opts) ==
    LET count == acc.filterCount + 1
        opErr == validateOperator(operator)
        Counted(applied) ==
            [filter |-> applied.filter, filterCount |-> count, error |-> applied.error]
    IN  IF acc.error # NoError THEN acc
        ELSE IF TooMany(count, opts.maxFilters)
        THEN [acc EXCEPT !.filterCount = count, !.error = BadRequest("Too many filters")]
        ELSE IF opErr # NoError THEN [acc EXCEPT !.filterCount = count, !.error = opErr]
        ELSE Counted(applyFilter(acc.filter, field, operator, rawValue,
                                 getFieldType(opts.adapter, field),
                                 opts.maxRegexLength, opts.legacy))

\* filter[field][op]=value: the operators of one field, in order
RECURSIVE BracketOps(_, _, _, _)
BracketOps(acc, field, entries, opts) ==
    IF entries = <<>> \/ acc.error # NoError THEN acc
    ELSE BracketOps(Condition(acc, field, entries[1].op, entries[1].val, opts),
                    field, Tail(entries), opts)

\* the loop over Object.entries(query.filter)
RECURSIVE BracketFields(_, _, _)
BracketFields(acc, entries, opts) ==
    IF entries = <<>> \/ acc.error # NoError THEN acc
    ELSE LET e == entries[1]
             fieldErr == validateField(e.field, AllowedFields(opts.queryConfig, opts.adapter))
             next == IF fieldErr # NoError THEN [acc EXCEPT !.error = fieldErr]
                     ELSE IF e.ops.t = "object" THEN BracketOps(acc, e.field, e.ops.entries, opts)
                     ELSE Condition(acc, e.field, S.eq, e.ops.s, opts)
         IN  BracketFields(next, Tail(entries), opts)

\* the loop over Object.entries(query): field=value and field__op=value
RECURSIVE SimpleParams(_, _, _)
SimpleParams(acc, entries, opts) ==
    IF entries = <<>> \/ acc.error # NoError THEN acc
    ELSE LET e == entries[1]
             parsed == parseParamKey(e.key)
             fieldErr == validateField(parsed.field, AllowedFields(opts.queryConfig, opts.adapter))
             next == IF e.key \in RESERVED_PARAMS THEN acc
                     ELSE IF e.value.t = "undefined" \/ e.value = StrV(<<>>) THEN acc
                     ELSE IF fieldErr # NoError THEN [acc EXCEPT !.error = fieldErr]
                     ELSE Condition(acc, parsed.field, parsed.operator, e.value.s, opts)
         IN  SimpleParams(next, Tail(entries), opts)

\* query[key]
QueryGet(query, key) ==
    IF \E i \in 1..Len(query) : query[i].key = key
    THEN query[CHOOSE i \in 1..Len(query) : query[i].key = key].value
    ELSE UndefV

\* parseFilters(query, options): [filter, filterCount, error]
parseFilters(query, opts) ==
    LET start == [filter |-> <<>>, filterCount |-> 0, error |-> NoError]
        bracket == QueryGet(query, S.filter)
        afterBracket == IF bracket.t = "object"
                        THEN BracketFields(start, bracket.entries, opts)
                        ELSE start
    IN  SimpleParams(afterBracket, query, opts)

(***************************************************************************)
(* parseFilters on bounded inputs                                          *)
(***************************************************************************)

\* the most conditions put on one field in one request
MaxParams == 3

FilterFields == {S.age, S.name, S.dollarWhere}
\* operator names a client may write: the vocabulary, and names outside it
OperatorInputs ==
    OperatorNames \cup {S.badop, S.dollarGt, <<>>, S.constructor, S.toString, S.proto}
FilterValues ==
    {<<>>, <<"5">>, <<"0">>, <<"a", "b", "c">>, S.true, <<"1", ",", "2">>, <<"a", ".", "b">>, S.date}
MergeValues == {<<"5">>, <<"0">>, S.date}
MergeOperators == {S.eq, S.gt, S.lt, S.in, S.like, S.exists}

QueryConfigOf(allowedFilters, allowedSorts, defaultSort, defaultLimit, maxLimit) ==
    [present |-> TRUE, allowedFilters |-> allowedFilters, allowedSorts |-> allowedSorts,
     defaultSort |-> defaultSort, defaultLimit |-> defaultLimit, maxLimit |-> maxLimit]
NoQueryConfig ==
    [present |-> FALSE, allowedFilters |-> NoList, allowedSorts |-> NoList,
     defaultSort |-> UndefV, defaultLimit |-> UndefV, maxLimit |-> UndefV]

\* a users-like schema
UserAdapter ==
    AdapterOf((S.age :> "number") @@ (S.name :> "string") @@ (S.born :> "date"))

\* field=value, or field__op=value
SuffixKey(field, operator, plain) ==
    IF plain THEN field ELSE field \o <<"_", "_">> \o operator

\* the entries of a query object, and of a bracket-syntax filter object
Param(key, value) == [key |-> key, value |-> value]
BracketField(field, ops) == [field |-> field, ops |-> ops]
BracketOp(op, val) == [op |-> op, val |-> val]

\* one condition, in each of the accepted syntaxes
SingleQueries ==
    {<<Param(SuffixKey(f, op, FALSE), StrV(v))>> :
        f \in FilterFields, op \in OperatorInputs, v \in FilterValues}
    \cup {<<Param(f, StrV(v))>> : f \in FilterFields, v \in FilterValues}
    \cup {<<Param(S.filter, ObjV(<<BracketField(f, ObjV(<<BracketOp(op, v)>>))>>))>> :
        f \in FilterFields, op \in OperatorInputs, v \in FilterValues}
    \cup {<<Param(S.filter, ObjV(<<BracketField(f, StrV(v))>>))>> :
        f \in FilterFields, v \in FilterValues}

\* sequences of at most n distinct members of a set
DistinctSeqs(set, n) ==
    {s \in UNION {[1..k -> set] : k \in 0..n} :
        \A i, j \in 1..Len(s) : i # j => s[i] # s[j]}

\* several operators on the field age: the first k in bracket syntax, the rest
\* as suffix parameters (equality as the plain parameter age=value)
MergeQuery(ops, vals, k) ==
    (IF k = 0 THEN <<>>
     ELSE <<Param(S.filter, ObjV(<<BracketField(S.age,
                ObjV([i \in 1..k |-> BracketOp(ops[i], vals[i])]))>>))>>)
    \o [i \in 1..(Len(ops) - k) |->
           Param(SuffixKey(S.age, ops[k + i], ops[k + i] = S.eq), StrV(vals[k + i]))]

\* the equality condition takes every value of MergeValues (a truthy and a falsy
\* number, a date); the value of another operator does not steer the merge
MergeValuesOf(ops) ==
    {vals \in [1..Len(ops) -> MergeValues] :
        \A i \in 1..Len(ops) : ops[i] # S.eq => vals[i] = <<"5">>}

MergeQueries ==
    UNION {UNION {{MergeQuery(ops, vals, k) : k \in 0..Len(ops)} :
                     vals \in MergeValuesOf(ops)} :
              ops \in DistinctSeqs(MergeOperators, MaxParams)}

FilterOptions ==
    {[adapter |-> a, queryConfig |-> qc, maxRegexLength |-> mr,
      maxFilters |-> DEFAULT_MAX_FILTERS, legacy |-> lg] :
        a \in {NoAdapter, UserAdapter},
        qc \in {NoQueryConfig,
                QueryConfigOf(ListOf({S.age}), NoList, UndefV, UndefV, UndefV)},
        mr \in {DEFAULT_MAX_REGEX_LENGTH, 2},
        lg \in BOOLEAN}

MergeOptions == {o \in FilterOptions : ~o.queryConfig.present /\ o.maxRegexLength # 2 /\ ~o.legacy}

\* a schema with a field of each type the parser coerces by
TypedAdapter ==
    AdapterOf((S.age :> "number") @@ (S.active :> "boolean") @@ (S.born :> "date")
              @@ (S.name :> "string"))

CoercionValues == FilterValues \cup {S.false, <<"1">>, <<"-", "5">>, <<"2", "5">>}

\* one scalar or list condition on a field of the typed schema
CoercionQueries ==
    {<<Param(SuffixKey(f, op, op = S.eq), StrV(v))>> :
        f \in DOMAIN TypedAdapter.types, op \in {S.eq, S.gt, S.in}, v \in CoercionValues}

CoercionOptions == {o \in FilterOptions : o.adapter = NoAdapter /\ ~o.queryConfig.present}
                   \cup {[o EXCEPT !.adapter = TypedAdapter] :
                            o \in {x \in FilterOptions : ~x.queryConfig.present}}

\* a configured maxFilters small enough for a request to exceed
CapOptions == {[o EXCEPT !.maxFilters = 2] : o \in {x \in MergeOptions : ~x.adapter.present}}

\* requests against the cap: conditions on the field age, the first k in
\* bracket syntax and the rest as suffix parameters; the shorter ones also
\* after a parameter that is no condition (an empty or undefined value, a
\* reserved key)
CapPrefixes ==
    {<<Param(S.name, StrV(<<>>))>>, <<Param(S.name, UndefV)>>,
     <<Param(S.page, StrV(<<"5">>))>>}

CapConditions ==
    UNION {{MergeQuery(ops, [i \in 1..Len(ops) |-> <<"5">>], k) : k \in 0..Len(ops)} :
              ops \in DistinctSeqs(MergeOperators, MaxParams)}

CapQueries ==
    CapConditions
    \cup {prefix \o query :
             prefix \in CapPrefixes, query \in {q \in CapConditions : Len(q) < MaxParams}}

\* One call of parseFilters on inputs of the caller's choosing.
ParseFiltersCall(query, opts) ==
    /\ fp.pc = "idle"
    /\ fp' = [pc |-> "done", query |-> query, opts |-> opts,
              result |-> parseFilters(query, opts)]
    /\ UNCHANGED <<perm, qb, req, store>>

\* The caller has taken the predicate or the error; the next call may start.
ParseFiltersReturn ==
    /\ fp.pc = "done"
    /\ fp' = Idle
    /\ UNCHANGED <<perm, qb, req, store>>

InitFilter ==
    /\ perm = Idle
    /\ fp = Idle
    /\ qb = Idle
    /\ req = Idle
    /\ store = NoCalls

NextFilter ==
    \/ ParseFiltersReturn
    \/ fp.pc = "idle" /\ \E query \in SingleQueries, opts \in FilterOptions :
                              ParseFiltersCall(query, opts)
    \/ fp.pc = "idle" /\ \E query \in MergeQueries, opts \in MergeOptions :
                              ParseFiltersCall(query, opts)
    \/ fp.pc = "idle" /\ \E call \in (CapQueries \X CapOptions)
                                        \cup (CoercionQueries \X CoercionOptions) :
                              ParseFiltersCall(call[1], call[2])

SpecFilter == InitFilter /\ [][NextFilter]_vars

\* The conditions a query carries: those of the bracket syntax, and the simple
\* and suffix parameters that are not reserved and have a value.
BracketConditions(query) ==
    LET b == QueryGet(query, S.filter)
    IN  IF b.t # "object" THEN {}
        ELSE UNION {
            IF b.entries[i].ops.t = "object"
            THEN {[field |-> b.entries[i].field, operator |-> b.entries[i].ops.entries[j].op,
                   raw |-> b.entries[i].ops.entries[j].val] :
                       j \in 1..Len(b.entries[i].ops.entries)}
            ELSE {[field |-> b.entries[i].field, operator |-> S.eq, raw |-> b.entries[i].ops.s]}
            : i \in 1..Len(b.entries)}

SimpleConditions(query) ==
    {[field |-> parseParamKey(query[i].key).field,
      operator |-> parseParamKey(query[i].key).operator,
      raw |-> query[i].value.s] :
        i \in {j \in 1..Len(query) :
                  /\ query[j].key \notin RESERVED_PARAMS
                  /\ query[j].value.t = "string" /\ query[j].value.s # <<>>}}

Conditions(query) == BracketConditions(query) \cup SimpleConditions(query)

FpDone == fp.pc = "done"

\* C8: a condition whose operator name is not one of the ten names of the
\* vocabulary, in suffix or in bracket syntax, makes parseFilters fail with
\* BadRequest; no predicate is returned. This includes the names of built-in
\* object properties such as constructor or toString.
C8_UnsupportedOperatorRejected ==
    (FpDone /\ \E c \in Conditions(fp.query) : c.operator \notin OperatorNames)
        => fp.result.error.name = "BadRequestError"

\* C9: distinct operators of the vocabulary on one field, in any order and in
\* either syntax: the entry of the field in the predicate holds the condition
\* of every one of them.
ConditionValue(c, opts) ==
    coerceValue(c.raw, c.operator, getFieldType(opts.adapter, c.field),
                opts.maxRegexLength, opts.legacy).value

HoldsCondition(entry, c, opts) ==
    \/ c.operator = S.eq /\ entry = ConditionValue(c, opts)
    \/ /\ entry.t = "ops"
       /\ MongoOp(c.operator) \in DOMAIN entry.ops
       /\ entry.ops[MongoOp(c.operator)] = ConditionValue(c, opts)

DistinctOperators(query) ==
    \A c, d \in Conditions(query) : (c.field = d.field /\ c.operator = d.operator) => c = d

C9_OperatorsMerge ==
    (/\ FpDone
     /\ fp.result.error = NoError
     /\ DistinctOperators(fp.query)
     /\ \A c \in Conditions(fp.query) : c.operator \in OperatorNames)
        => \A c \in Conditions(fp.query) :
              HoldsCondition(FilterGet(fp.result.filter, c.field), c, fp.opts)

\* the conditions that carry a value
ValuedConditions(query) == {c \in Conditions(query) : c.raw # <<>>}

\* C23: the conditions of the bracket syntax and of the simple and suffix
\* syntax are counted in one running count. A request with more conditions
\* than the configured maximum fails with BadRequest, so no predicate is
\* returned for more than the maximum; the error is raised only when the count
\* has passed the maximum; and a returned predicate has an entry for the field
\* of every condition (none is dropped to fit the cap).
C23_FilterCap ==
    FpDone =>
        /\ Cardinality(ValuedConditions(fp.query)) > fp.opts.maxFilters
              => fp.result.error.name = "BadRequestError"
        /\ fp.result.error = BadRequest("Too many filters")
              => /\ fp.result.filterCount = fp.opts.maxFilters + 1
                 /\ Cardinality(Conditions(fp.query)) > fp.opts.maxFilters
        /\ fp.result.error = NoError
              => /\ fp.result.filterCount <= fp.opts.maxFilters
                 /\ \A c \in ValuedConditions(fp.query) :
                        c.field \in DOMAIN fp.result.filter

C23_Witness ==
    /\ FpDone
    /\ fp.opts.maxFilters = 2
    /\ Cardinality(BracketConditions(fp.query)) = 1
    /\ Cardinality(SimpleConditions(fp.query)) = 2
    /\ fp.result.error = BadRequest("Too many filters")
    /\ fp.result.filterCount = 3

\* C24: a filter parameter whose value is the empty string or undefined, in
\* any of the accepted syntaxes, adds no entry to the predicate, raises no
\* error and is not counted; the reserved keys never become predicate fields.
\* So a request whose filter parameters all lack a value yields the empty
\* predicate, the count never passes the number of conditions with a value,
\* and every field of the predicate is the field of a condition with a value.
C24_EmptyValueSkipped ==
    FpDone =>
        /\ ValuedConditions(fp.query) = {}
              => fp.result = [filter |-> <<>>, filterCount |-> 0, error |-> NoError]
        /\ fp.result.filterCount <= Cardinality(ValuedConditions(fp.query))
        /\ \A f \in DOMAIN fp.result.filter :
              \E c \in ValuedConditions(fp.query) : c.field = f

\* the request that writes one bracket condition in the other syntax:
\* field__op=value for filter[field][op]=value, field=value for filter[field]=value
SuffixForm(query) ==
    LET e == query[1].value.entries[1]
    IN  IF e.ops.t = "object"
        THEN <<Param(SuffixKey(e.field, e.ops.entries[1].op, FALSE),
                     StrV(e.ops.entries[1].val))>>
        ELSE <<Param(e.field, StrV(e.ops.s))>>

OneBracketCondition(query) ==
    /\ Len(query) = 1
    /\ query[1].key = S.filter
    /\ Cardinality(BracketConditions(query)) = 1

\* C25: a condition written in bracket syntax and the same condition written
\* in suffix (or plain) syntax give the same predicate, or the same rejection,
\* for every field, every operator of the vocabulary and every value.
C25_SyntaxEquivalent ==
    (/\ FpDone
     /\ OneBracketCondition(fp.query)
     /\ \A c \in BracketConditions(fp.query) : c.operator \in OperatorNames)
        => LET suffix == parseFilters(SuffixForm(fp.query), fp.opts)
           IN  /\ fp.result.filter = suffix.filter
               /\ fp.result.error = suffix.error

\* the value coerced by the declared type alone: the typed value where the
\* string can be read as one, the original string where it cannot
CoercedByType(str, fieldType, legacy) ==
    CASE fieldType = "number" -> IF Number(str) # NaN THEN Number(str) ELSE StrV(str)
      [] fieldType = "boolean" ->
            IF str \in {S.true, <<"1">>} THEN BoolV(TRUE)
            ELSE IF str \in {S.false, <<"0">>} THEN BoolV(FALSE)
            ELSE StrV(str)
      [] fieldType = "date" -> IF DateValid(str, legacy) THEN DateV(str) ELSE StrV(str)

\* the value the predicate holds for a scalar condition
PredicateValue(filter, c) ==
    IF c.operator = S.eq THEN FilterGet(filter, c.field)
    ELSE FilterGet(filter, c.field).ops[MongoOp(c.operator)]

ScalarOperators == {S.eq, S.ne, S.gt, S.gte, S.lt, S.lte}

\* C26: when the schema declares the field a number, a boolean or a date, the
\* value of a scalar condition is coerced by that type only: the typed value
\* where the string can be read as one, and the original string where it
\* cannot. Pattern auto-detection plays no part for such a field.
C26_DeclaredTypeOnly ==
    (/\ FpDone
     /\ fp.result.error = NoError
     /\ Len(fp.query) = 1
     /\ Cardinality(ValuedConditions(fp.query)) = 1)
        => \A c \in ValuedConditions(fp.query) :
              (/\ c.operator \in ScalarOperators
               /\ getFieldType(fp.opts.adapter, c.field) \in {"number", "boolean", "date"})
                  => PredicateValue(fp.result.filter, c)
                        = CoercedByType(c.raw, getFieldType(fp.opts.adapter, c.field),
                                        fp.opts.legacy)

\* the decimal digits of a natural number
DigitChar(d) == CHOOSE c \in Digits : DigitVal(c) = d

RECURSIVE NatToString(_)
NatToString(n) ==
    IF n < 10 THEN <<DigitChar(n)>> ELSE NatToString(n \div 10) \o <<DigitChar(n % 10)>>

\* a coerced integer or boolean written back as the text of a query value
ValueToString(v) ==
    IF v.t = "boolean" THEN (IF v.b THEN S.true ELSE S.false)
    ELSE IF v.mant < 0 THEN <<"-">> \o NatToString(0 - v.mant)
    ELSE NatToString(v.mant)

\* the decimal text of an integer: digits with no leading zero, "-" before a
\* negative one
IsIntegerString(str) ==
    LET body == IF StartsWith(str, "-") THEN Tail(str) ELSE str
    IN  /\ Len(body) > 0 /\ AllDigits(body)
        /\ Len(body) > 1 => body[1] # "0"
        /\ StartsWith(str, "-") => body # <<"0">>

IntegerOf(str) ==
    IF StartsWith(str, "-") THEN 0 - DigitsValue(Tail(str)) ELSE DigitsValue(str)

\* the request with the value of its one parameter replaced
WithValue(query, str) == <<Param(query[1].key, StrV(str))>>

\* C27: for a field declared a number the text of an integer n is coerced to
\* the number n, for a field declared a boolean 'true' is coerced to true, and
\* writing the coerced value back into the request and parsing again gives the
\* predicate of the first parse.
C27_CoercionRoundTrip ==
    (/\ FpDone
     /\ Len(fp.query) = 1
     /\ Cardinality(ValuedConditions(fp.query)) = 1)
        => \A c \in SimpleConditions(fp.query) :
              LET fieldType == getFieldType(fp.opts.adapter, c.field)
                  typed == \/ fieldType = "number" /\ IsIntegerString(c.raw)
                           \/ fieldType = "boolean" /\ c.raw = S.true
                  expected == IF fieldType = "number" THEN IntV(IntegerOf(c.raw))
                              ELSE BoolV(TRUE)
              IN  (c.operator \in ScalarOperators /\ typed /\ fp.result.error = NoError)
                      => /\ PredicateValue(fp.result.filter, c) = expected
                         /\ ValueToString(expected) = c.raw
                         /\ parseFilters(WithValue(fp.query, ValueToString(
                                             PredicateValue(fp.result.filter, c))),
                                         fp.opts) = fp.result

C27_Witness ==
    /\ FpDone
    /\ fp.opts.adapter = TypedAdapter
    /\ fp.query = <<Param(S.age, StrV(<<"2", "5">>))>>
    /\ fp.result.filter = (S.age :> IntV(25))
    /\ parseFilters(WithValue(fp.query, ValueToString(fp.result.filter[S.age])), fp.opts)
          = fp.result

(***************************************************************************)
(* QUERY BUILDER                                                           *)
(***************************************************************************)
DEFAULT_PAGE == 1
DEFAULT_LIMIT == 10
DEFAULT_MAX_LIMIT == 100

\* String(value) of a query parameter that is absent or a string
String(value) == IF value.t = "undefined" THEN S.undefined ELSE value.s

\* JavaScript truthiness of a sort or fields parameter: a non-empty string or
\* any array
Truthy(param) == (param.t = "string" /\ param.s # <<>>) \/ param.t = "array"

\* Array.isArray(param) ? param : param.split(',').map((s) => s.trim())
ListItems(param) ==
    IF param.t = "array" THEN param.items ELSE MapTrim(Split(param.s, ","))

\* sort[fieldName] = direction: a key keeps the place of its first insertion
SortSet(sort, fieldName, direction) ==
    IF \E i \in 1..Len(sort) : sort[i].field = fieldName
    THEN [i \in 1..Len(sort) |->
             IF sort[i].field = fieldName
             THEN [field |-> fieldName, direction |-> direction] ELSE sort[i]]
    ELSE Append(sort, [field |-> fieldName, direction |-> direction])

\* the loop of parseSort over the fields; acc = [sort, error]
RECURSIVE SortFields(_, _, _)
SortFields(acc, fields, allowedSorts) ==
    IF fields = <<>> \/ acc.error # NoError THEN acc
    ELSE LET field == fields[1]
             descending == StartsWith(field, "-")
             fieldName == IF descending THEN Tail(field) ELSE field
             next ==
                 IF field = <<>> THEN acc
                 ELSE IF StartsWith(fieldName, "$")
                 THEN [acc EXCEPT !.error = BadRequest("Invalid sort field")]
                 ELSE IF allowedSorts.present /\ fieldName \notin allowedSorts.list
                 THEN [acc EXCEPT !.error = BadRequest("Sorting by field is not allowed")]
                 ELSE [acc EXCEPT !.sort =
                          SortSet(acc.sort, fieldName, IF descending THEN -1 ELSE 1)]
         IN  SortFields(next, Tail(fields), allowedSorts)

\* a parseSort that knows no allowed set
AllowedSortsUnknown(queryConfig, adapter) == NoList

\* queryConfig?.allowedSorts ?? adapter?.getFields()
AllowedSorts(queryConfig, adapter) ==
    IF queryConfig.present /\ queryConfig.allowedSorts.present
    THEN queryConfig.allowedSorts
    ELSE getFields(adapter)

\* parseSort: [sort, error]; the sort is a sequence of [field, direction]
parseSort(sortParam, queryConfig, adapter) ==
    LET param == IF ~Truthy(sortParam) /\ queryConfig.present /\ Truthy(queryConfig.defaultSort)
                 THEN queryConfig.defaultSort
                 ELSE sortParam
    IN  IF ~Truthy(param) THEN [sort |-> <<>>, error |-> NoError]
        ELSE SortFields([sort |-> <<>>, error |-> NoError], ListItems(param),
                        AllowedSorts(queryConfig, adapter))

\* a pagination that does not clamp the limit
NoClamp(limit, maxLimit) == limit

\* if (limit > maxLimit) limit = maxLimit
ClampLimit(limit, maxLimit) == IF limit > maxLimit THEN maxLimit ELSE limit

\* parsePagination: [skip, limit, page]
parsePagination(queryParams, defaultLimit, maxLimit) ==
    LET Paginate(parsedPage, parsedLimit) ==
            LET page == IF parsedPage = NaN \/ parsedPage.mant < 1
                        THEN DEFAULT_PAGE ELSE parsedPage.mant
                limit == ClampLimit(IF parsedLimit = NaN \/ parsedLimit.mant < 1
                                    THEN defaultLimit ELSE parsedLimit.mant, maxLimit)
            IN  [skip |-> (page - 1) * limit, limit |-> limit, page |-> page]
    IN  Paginate(parseInt(String(QueryGet(queryParams, S.page))),
                 parseInt(String(QueryGet(queryParams, S.limit))))

\* the loop of parseProjection over the fields; acc = [fields, error]
RECURSIVE ProjectionFields(_, _, _)
ProjectionFields(acc, fields, schemaFields) ==
    IF fields = <<>> \/ acc.error # NoError THEN acc
    ELSE LET field == fields[1]
             next ==
                 IF field = <<>> THEN acc
                 ELSE IF StartsWith(field, "$")
                 THEN [acc EXCEPT !.error = BadRequest("Invalid projection field")]
                 ELSE IF schemaFields.present /\ field \notin schemaFields.list
                 THEN [acc EXCEPT !.error = BadRequest("Field does not exist in schema")]
                 ELSE [acc EXCEPT !.fields = acc.fields \cup {field}]
         IN  ProjectionFields(next, Tail(fields), schemaFields)

\* parseProjection: [projection, error]; the projection is the list of the
\* fields set to 1, or undefined (NoList) when there is none
parseProjection(fieldsParam, adapter) ==
    LET Projected(acc) ==
            [projection |-> IF acc.fields = {} THEN NoList ELSE ListOf(acc.fields),
             error |-> acc.error]
    IN  IF ~Truthy(fieldsParam) THEN [projection |-> NoList, error |-> NoError]
        ELSE Projected(ProjectionFields([fields |-> {}, error |-> NoError],
                                        ListItems(fieldsParam), getFields(adapter)))

\* defaultLimit = queryConfig?.defaultLimit ?? DEFAULT_LIMIT, unless the options
\* give one; likewise maxLimit (an optional number is UndefV or IntV(n))
defaultLimitOf(options) ==
    IF options.defaultLimit # UndefV THEN options.defaultLimit.mant
    ELSE IF options.queryConfig.present /\ options.queryConfig.defaultLimit # UndefV
    THEN options.queryConfig.defaultLimit.mant
    ELSE DEFAULT_LIMIT

maxLimitOf(options) ==
    IF options.maxLimit # UndefV THEN options.maxLimit.mant
    ELSE IF options.queryConfig.present /\ options.queryConfig.maxLimit # UndefV
    THEN options.queryConfig.maxLimit.mant
    ELSE DEFAULT_MAX_LIMIT

\* what buildQuery hands to parseFilters: maxFilters is not passed on
FilterParserOptions(options) ==
    [adapter |-> options.adapter, queryConfig |-> options.queryConfig,
     maxRegexLength |-> IF options.maxRegexLength = UndefV
                        THEN DEFAULT_MAX_REGEX_LENGTH ELSE options.maxRegexLength.mant,
     maxFilters |-> DEFAULT_MAX_FILTERS, legacy |-> options.legacy]

\* a MongoQuery that was not built: the error thrown instead
Thrown(error) ==
    [error |-> error, filter |-> <<>>, sort |-> <<>>, skip |-> 0, limit |-> 0,
     projection |-> NoList]

\* buildQuery: the MongoQuery, or the first error thrown by the filter, the sort
\* or the projection parser (in that order); an empty sort and an empty
\* projection are left out of the MongoQuery
buildQuery(queryParams, options) ==
    LET Build(f, s, pg, pr) ==
            IF f.error # NoError THEN Thrown(f.error)
            ELSE IF s.error # NoError THEN Thrown(s.error)
            ELSE IF pr.error # NoError THEN Thrown(pr.error)
            ELSE [error |-> NoError, filter |-> f.filter, sort |-> s.sort,
                  skip |-> pg.skip, limit |-> pg.limit, projection |-> pr.projection]
    IN  Build(parseFilters(queryParams, FilterParserOptions(options)),
              parseSort(QueryGet(queryParams, S.sort), options.queryConfig, options.adapter),
              parsePagination(queryParams, defaultLimitOf(options), maxLimitOf(options)),
              parseProjection(QueryGet(queryParams, S.fields), options.adapter))

(***************************************************************************)
(* buildQuery on bounded inputs                                            *)
(***************************************************************************)

\* the longest page or limit string
MaxLen == 3
\* the most entries of a sort or fields list
MaxItems == 2

\* page and limit: absent, or any string of digits, sign, blank and letter
PageChars == {"0", "1", "9", "-", " ", "x"}
PageValues == {UndefV} \cup {StrV(str) : str \in UNION {[1..n -> PageChars] : n \in 0..MaxLen}}
FewPageValues == {UndefV, StrV(<<"9">>)}

PaginationQueries ==
    {<<Param(S.page, page), Param(S.limit, limit)>> :
        page \in PageValues, limit \in FewPageValues}
    \cup {<<Param(S.page, page), Param(S.limit, limit)>> :
        page \in FewPageValues, limit \in PageValues}

QueryBuilderOptions(adapter, queryConfig, defaultLimit, maxLimit, maxRegexLength, legacy) ==
    [adapter |-> adapter, queryConfig |-> queryConfig, defaultLimit |-> defaultLimit,
     maxLimit |-> maxLimit, maxRegexLength |-> maxRegexLength, legacy |-> legacy]

\* positive limits, from the options, from the query configuration or from the
\* constants; a default above the maximum is among them
PaginationOptions ==
    {QueryBuilderOptions(UserAdapter, qc, dl, ml, UndefV, FALSE) :
        qc \in {NoQueryConfig, QueryConfigOf(NoList, NoList, UndefV, IntV(5), IntV(2))},
        dl \in {UndefV, IntV(3)}, ml \in {UndefV, IntV(4)}}

\* the entries of a sort or fields list: a schema field, a field outside the
\* schema, a reserved-prefix name and the empty entry, plain, with a leading
\* minus and with a leading blank
ListNames == {S.age, S.secret, S.dollarWhere, <<>>}
ListItemInputs ==
    ListNames \cup {<<"-">> \o n : n \in ListNames} \cup {<<" ">> \o n : n \in ListNames}

\* array.join(',')
RECURSIVE Join(_)
Join(items) ==
    IF items = <<>> THEN <<>>
    ELSE IF Len(items) = 1 THEN items[1]
    ELSE items[1] \o <<",">> \o Join(Tail(items))

\* a sort or fields parameter: a comma-separated string, or a repeated
\* parameter (an array)
ListValues ==
    LET lists == UNION {[1..n -> ListItemInputs] : n \in 0..MaxItems}
    IN  {StrV(Join(items)) : items \in lists} \cup {ArrayV(items) : items \in lists}

ListQueries ==
    {<<Param(S.sort, v)>> : v \in ListValues} \cup {<<Param(S.fields, v)>> : v \in ListValues}

ListOptions ==
    {QueryBuilderOptions(a, qc, UndefV, UndefV, UndefV, lg) :
        a \in {NoAdapter, UserAdapter},
        qc \in {NoQueryConfig,
                QueryConfigOf(ListOf({S.age}), ListOf({S.age, S.secret}),
                              StrV(<<"-">> \o S.age), UndefV, UndefV)},
        lg \in BOOLEAN}

\* One call of buildQuery on inputs of the caller's choosing.
BuildQueryCall(queryParams, options) ==
    /\ qb.pc = "idle"
    /\ qb' = [pc |-> "done", query |-> queryParams, options |-> options,
              result |-> buildQuery(queryParams, options)]
    /\ UNCHANGED <<perm, fp, req, store>>

\* The caller has taken the MongoQuery or the error; the next call may start.
BuildQueryReturn ==
    /\ qb.pc = "done"
    /\ qb' = Idle
    /\ UNCHANGED <<perm, fp, req, store>>

InitQuery ==
    /\ perm = Idle
    /\ fp = Idle
    /\ qb = Idle
    /\ req = Idle
    /\ store = NoCalls

NextQuery ==
    \/ BuildQueryReturn
    \/ qb.pc = "idle" /\ \E q \in PaginationQueries, o \in PaginationOptions :
                              BuildQueryCall(q, o)
    \/ qb.pc = "idle" /\ \E q \in ListQueries, o \in {x \in ListOptions : ~x.legacy} :
                              BuildQueryCall(q, o)
    \/ qb.pc = "idle" /\ \E q \in SingleQueries, o \in ListOptions : BuildQueryCall(q, o)

SpecQuery == InitQuery /\ [][NextQuery]_vars

QbDone == qb.pc = "done"

\* what the request asks for: parseInt of the page and of the limit parameter
RequestedPage == parseInt(String(QueryGet(qb.query, S.page)))
RequestedLimit == parseInt(String(QueryGet(qb.query, S.limit)))
Unusable(n) == n = NaN \/ n.mant < 1

\* the page the pagination settles on
EffectivePage == IF Unusable(RequestedPage) THEN 1 ELSE RequestedPage.mant

SortItems(param) ==
    IF Truthy(param) THEN SelectSeq(ListItems(param), LAMBDA item : item # <<>>) ELSE <<>>

SortFieldOf(item) == IF StartsWith(item, "-") THEN Tail(item) ELSE item

\* the sort the entries spell out: descending for a leading '-', ascending
\* otherwise, one key per entry in the order of the entries
SortAsGiven(items) ==
    [i \in 1..Len(items) |->
        [field |-> SortFieldOf(items[i]),
         direction |-> IF StartsWith(items[i], "-") THEN -1 ELSE 1]]

WithoutDefaultSort(queryConfig) == [queryConfig EXCEPT !.defaultSort = UndefV]

\* C29: an entry of the sort parameter with a leading '-' sorts descending, an
\* unprefixed entry ascending, in the order given; the configured default sort
\* is used when the request carries no sort parameter, and a request that
\* carries a sort parameter is sorted as it would be with no default
\* configured.
C29_SortAndDefault ==
    (QbDone /\ qb.result.error = NoError) =>
        LET param == QueryGet(qb.query, S.sort)
            queryConfig == qb.options.queryConfig
            items == SortItems(param)
        IN  /\ param # UndefV
                  => qb.result.sort =
                        parseSort(param, WithoutDefaultSort(queryConfig),
                                  qb.options.adapter).sort
            /\ (/\ param # UndefV
                 /\ \A i, j \in 1..Len(items) :
                       i # j => SortFieldOf(items[i]) # SortFieldOf(items[j]))
                  => qb.result.sort = SortAsGiven(items)
            /\ param = UndefV
                  => qb.result.sort =
                        IF queryConfig.present /\ queryConfig.defaultSort # UndefV
                        THEN SortAsGiven(SortItems(queryConfig.defaultSort))
                        ELSE <<>>

(***************************************************************************)
(* REQUEST PIPELINE: the Express and Hono adapters, crud-operations.ts     *)
(***************************************************************************)
Frameworks == {"express", "hono"}

\* the lifecycle hooks of each route operation (crud-operations.ts)
BeforeHook ==
    [list |-> "beforeFind", get |-> "beforeFind", create |-> "beforeCreate",
     update |-> "beforeUpdate", patch |-> "beforeUpdate", delete |-> "beforeDelete"]
AfterHook ==
    [list |-> "afterFind", get |-> "afterFind", create |-> "afterCreate",
     update |-> "afterUpdate", patch |-> "afterUpdate", delete |-> "afterDelete"]

\* the store driver calls of each route operation, in the order they are issued
StoreMethods ==
    [list |-> <<"find", "countDocuments">>, get |-> <<"findById">>,
     create |-> <<"create">>, update |-> <<"findByIdAndUpdate">>,
     patch |-> <<"findByIdAndUpdate">>, delete |-> <<"findByIdAndDelete">>]

HttpMethod ==
    [list |-> "GET", get |-> "GET", create |-> "POST", update |-> "PUT",
     patch |-> "PATCH", delete |-> "DELETE"]

\* request bodies: a JSON object (its top-level keys, in order), an array, null,
\* a string, a number, or none at all
ObjectBody(keys) == [t |-> "object", keys |-> keys]
ArrayBody == [t |-> "array", keys |-> <<>>]
NullBody == [t |-> "null", keys |-> <<>>]
StringBody == [t |-> "string", keys |-> <<>>]
NumberBody == [t |-> "number", keys |-> <<>>]
NoBody == [t |-> "undefined", keys |-> <<>>]

\* toMonapiRequest and the body parsing of the adapters: Express hands req.body
\* on; Hono parses JSON for POST, PUT and PATCH, takes {} when there is no
\* parseable JSON, and leaves null for the other methods
RequestBody(framework, method, sent) ==
    IF framework = "express" THEN sent
    ELSE IF method \in {"POST", "PUT", "PATCH"}
    THEN (IF sent = NoBody THEN ObjectBody(<<>>) ELSE sent)
    ELSE NullBody

\* patchDocument accepting any keys of an object body
PatchBodyObjectOnly(data) ==
    IF data.t # "object" THEN ValidationError("Request body must be an object")
    ELSE NoError

\* patchDocument, before the hook: the error thrown for the body, or NoError
PatchBodyError(data) ==
    IF data.t # "object" THEN ValidationError("Request body must be an object")
    ELSE IF \E i \in 1..Len(data.keys) : StartsWith(data.keys[i], "$")
    THEN ValidationError("Invalid field name")
    ELSE NoError

\* getDocument: the projection of ?fields=, entries trimmed, empty and
\* $-prefixed entries left out; undefined (NoList) without the parameter
GetProjection(fieldsParam) ==
    IF ~Truthy(fieldsParam) THEN NoList
    ELSE LET fields == IF fieldsParam.t = "string" THEN Split(fieldsParam.s, ",")
                       ELSE fieldsParam.items
         IN  ListOf({Trim(fields[i]) : i \in 1..Len(fields)}
                    \ {f \in {Trim(fields[i]) : i \in 1..Len(fields)} :
                          f = <<>> \/ StartsWith(f, "$")})

\* DefaultConfig: the query configuration, pagination limits and regex bound
\* shared by the collections
DefaultsOf(query, limit, maxLimit, maxRegexLength) ==
    [query |-> query, limit |-> limit, maxLimit |-> maxLimit,
     maxRegexLength |-> maxRegexLength]
NoDefaults == DefaultsOf(NoQueryConfig, UndefV, UndefV, UndefV)

\* the options listDocuments hands to buildQuery
ListQueryOptions(config, adapter, legacy) ==
    QueryBuilderOptions(adapter,
        IF config.query.present THEN config.query ELSE config.defaults.query,
        config.defaults.limit, config.defaults.maxLimit,
        config.defaults.maxRegexLength, legacy)

\* extractPagination: the page and limit of the response meta; the same
\* arithmetic as parsePagination, on the defaults of DefaultConfig or the constants
extractPagination(queryParams, defaultLimit, maxLimit) ==
    parsePagination(queryParams,
                    IF defaultLimit = UndefV THEN DEFAULT_LIMIT ELSE defaultLimit.mant,
                    IF maxLimit = UndefV THEN DEFAULT_MAX_LIMIT ELSE maxLimit.mant)

\* Math.ceil(a / b) for a positive b: the quotient, rounded up when it is no integer
MathCeil(a, b) == IF a % b = 0 THEN a \div b ELSE (a \div b) + 1

\* page metadata whose totalPages is rounded down
buildPaginationMetaFloor(total, page, limit) ==
    [page |-> page, limit |-> limit, total |-> total, totalPages |-> total \div limit]

\* buildPaginationMeta: totalPages = Math.ceil(total / limit)
buildPaginationMeta(total, page, limit) ==
    [page |-> page, limit |-> limit, total |-> total, totalPages |-> MathCeil(total, limit)]
NoMeta == [page |-> 0, limit |-> 0, total |-> 0, totalPages |-> 0]

\* an error handler that answers every error with its own message
ErrorResponseVerbose(err, production) ==
    IF err.name = "Error"
    THEN [status |-> 500, code |-> "INTERNAL_ERROR", message |-> err.message,
          details |-> Undefined, data |-> "none", meta |-> NoMeta]
    ELSE [status |-> err.statusCode, code |-> err.code, message |-> err.message,
          details |-> err.details, data |-> "none", meta |-> NoMeta]

\* the error handler of both adapters (and middleware/error-handler.ts): a
\* MonapiError is sent with its status, code, message and details; anything
\* else as 500 INTERNAL_ERROR, with its message unless NODE_ENV is 'production'
ErrorResponse(err, production) ==
    IF err.name = "Error"
    THEN [status |-> 500, code |-> "INTERNAL_ERROR",
          message |-> IF production THEN "Internal server error" ELSE err.message,
          details |-> Undefined, data |-> "none", meta |-> NoMeta]
    ELSE [status |-> err.statusCode, code |-> err.code, message |-> err.message,
          details |-> err.details, data |-> "none", meta |-> NoMeta]
DataResponse(status, data, meta) ==
    [status |-> status, code |-> "none", message |-> "none", details |-> Undefined,
     data |-> data, meta |-> meta]
\* nothing was sent
NoResponse == DataResponse(0, "none", NoMeta)

\* next() is called after checkPermissions whatever its outcome
PermissionIgnored(outcome) == TRUE

\* the handler runs only when checkPermissions has returned without throwing
PermissionPassed(outcome) == outcome = "allow"

\* the error checkPermissions throws
PermissionError(outcome) ==
    IF outcome = "UnauthorizedError" THEN UnauthorizedError
    ELSE IF outcome = "ForbiddenError" THEN ForbiddenError
    ELSE UntypedError("permission function failed")

\* what a before hook may do with its context, and an after hook with its own
BeforeOutcomes == {"none", "ok", "preventDefault", "throw", "rewrite", "clear"}
AfterOutcomes == {"none", "ok", "throw", "replace", "clear", "nullify"}

\* the MongoQuery and the data a before hook puts in place of the request's
HookQuery ==
    [error |-> NoError, filter |-> (S.secret :> StrV(<<"x">>)),
     sort |-> <<[field |-> S.secret, direction |-> 1]>>, skip |-> 0, limit |-> 1,
     projection |-> ListOf({S.secret})]
HookData == ObjectBody(<<S.role>>)

\* a hook context: createCtx, with preventDefault not set
createCtx(query, data) ==
    [query |-> query, data |-> data, result |-> "undefined", preventDefault |-> FALSE]

\* a before hook acting on its context
BeforeHookEffect(ctx, outcome) ==
    IF outcome = "preventDefault" THEN [ctx EXCEPT !.preventDefault = TRUE]
    ELSE IF outcome = "rewrite" THEN [ctx EXCEPT !.query = HookQuery, !.data = HookData]
    ELSE IF outcome = "clear" THEN [ctx EXCEPT !.query = UndefV, !.data = NoBody]
    ELSE ctx

\* an after hook acting on its context
AfterHookEffect(ctx, outcome) ==
    IF outcome = "replace" THEN [ctx EXCEPT !.result = "hookResult"]
    ELSE IF outcome = "clear" THEN [ctx EXCEPT !.result = "undefined"]
    ELSE IF outcome = "nullify" THEN [ctx EXCEPT !.result = "null"]
    ELSE ctx

\* a hook runner that swallows what the hook throws
runHookSwallows(outcome, hookError) == NoError

\* runHook: catch (error) { log; throw error }: the error the awaited hook
\* threw, rethrown as it is, or NoError
runHookError(outcome, hookError) == IF outcome = "throw" THEN hookError ELSE NoError

\* an operation that does not look at preventDefault
PreventedNever(ctx) == FALSE

\* if (ctx.preventDefault) return { statusCode: 0, data: null }
Prevented(ctx) == ctx.preventDefault

\* validation errors that are not thrown
ValidationIgnored(valid, errors) == NoError

\* if (!validation.valid) throw new ValidationError('Validation failed', validation.errors)
ValidationFailure(valid, errors) ==
    IF ~valid THEN WithDetails(ValidationError("Validation failed"), errors) ELSE NoError

\* a missing document taken for a result
MissingNever(op, found) == FALSE

\* if (!doc) throw new NotFoundError(collectionName, id): get, update, patch, delete
Missing(op, found) == op \in {"get", "update", "patch", "delete"} /\ ~found

\* every success answered 200
SuccessStatusOk(op) == 200

\* the statusCode of the result: 201 for a create, 200 otherwise
SuccessStatus(op) == IF op = "create" THEN 201 ELSE 200

\* ctx.result ?? doc: the data of the result
ResultData(result, doc) == IF result \in {"undefined", "null"} THEN doc ELSE result

\* the calls an operation makes to the store driver, with their arguments:
\* ctx.query ?? mongoQuery for a list, ctx.data ?? data for the writes
StoreCalls(op, ctx, mongoQuery, data, projection) ==
    LET query == IF ctx.query = UndefV THEN mongoQuery ELSE ctx.query
        written == IF ctx.data = NoBody THEN data ELSE ctx.data
    IN  CASE op = "list" ->
               <<[method |-> "find", filter |-> query.filter, sort |-> query.sort,
                  skip |-> query.skip, limit |-> query.limit,
                  projection |-> query.projection],
                 [method |-> "countDocuments", filter |-> query.filter]>>
          [] op = "get" -> <<[method |-> "findById", projection |-> projection]>>
          [] op = "create" -> <<[method |-> "create", data |-> written]>>
          [] op = "update" ->
               <<[method |-> "findByIdAndUpdate", operator |-> "none", data |-> written]>>
          [] op = "patch" ->
               <<[method |-> "findByIdAndUpdate", operator |-> "$set", data |-> written]>>
          [] op = "delete" -> <<[method |-> "findByIdAndDelete"]>>

\* The request in flight. in: what the client sent, how the collection is
\* configured and what the store will answer; trace: the stages started so far,
\* in order; inflight: the stages started and not yet completed.
\* statusCode is that of the operation's result, -1 while there is none; round
\* and first are 1 and empty unless the request repeats an earlier one, whose
\* response first then is.
Accepted(r, round, first) ==
    [pc |-> "auth", in |-> r, user |-> NoUser,
     body |-> RequestBody(r.framework, HttpMethod[r.op], r.sent),
     permission |-> "none", mongoQuery |-> Thrown(NoError),
     projection |-> NoList, ctx |-> createCtx(UndefV, NoBody),
     error |-> NoError, statusCode |-> -1, trace |-> <<>>, inflight |-> {},
     ran |-> <<>>, response |-> NoResponse, round |-> round, first |-> first]

ReceiveRequest(r) ==
    /\ req.pc = "idle"
    /\ req' = Accepted(r, 1, NoResponse)
    /\ store' = NoCalls
    /\ UNCHANGED <<perm, fp, qb>>

\* the stack entry that follows: Express pushes config.middleware.all, then
\* config.middleware[op], then the permission check; the Hono handler has no
\* place for either middleware
AfterAuth(r) ==
    IF r.framework = "express" /\ r.config.middleware.all THEN "middleware"
    ELSE IF r.framework = "express" /\ r.config.middleware.op THEN "opMiddleware"
    ELSE "permission"

AfterCollectionMiddleware(r) ==
    IF r.config.middleware.op THEN "opMiddleware" ELSE "permission"

\* The authentication middleware, where one is configured, sets the user and
\* calls its continuation, or rejects the request: it answers by itself and
\* does not call the continuation. Express puts it first in every stack, and
\* a middleware that does not call next() ends the stack. Hono skips it for a
\* 'public' operation and goes on after `await authMiddleware(c, async () => {})`
\* whether the continuation was called or not.
AuthMiddleware ==
    /\ req.pc = "auth"
    /\ LET isPublic == req.in.config.permissions.rules[req.in.op] = PublicRule
           runs == req.in.config.auth /\ (req.in.framework = "express" \/ ~isPublic)
           rejects == runs /\ req.in.authOutcome = "reject"
       IN  req' = IF rejects /\ req.in.framework = "express"
                  THEN [req EXCEPT !.pc = "done", !.ran = Append(@, "auth"),
                                   !.response = DataResponse(401, "auth", NoMeta)]
                  ELSE [req EXCEPT !.pc = AfterAuth(req.in),
                                   !.ran = IF runs THEN Append(@, "auth") ELSE @,
                                   !.user = IF runs /\ ~rejects THEN req.in.credentials
                                            ELSE NoUser]
    /\ UNCHANGED <<perm, fp, qb, store>>

\* config.middleware.all of an Express stack: it calls next()
CollectionMiddleware ==
    /\ req.pc = "middleware"
    /\ req' = [req EXCEPT !.pc = AfterCollectionMiddleware(req.in),
                          !.ran = Append(@, "all")]
    /\ UNCHANGED <<perm, fp, qb, store>>

\* config.middleware[op] of an Express stack: it calls next()
OperationMiddleware ==
    /\ req.pc = "opMiddleware"
    /\ req' = [req EXCEPT !.pc = "permission", !.ran = Append(@, "op")]
    /\ UNCHANGED <<perm, fp, qb, store>>

\* a stack that has the permission check only before the default handler
PermissionCheckedDefaultOnly(r) ==
    /\ r.config.permissions.present
    /\ ~r.config.customHandler
    /\ (r.framework = "express" \/ r.config.permissions.rules[r.op] # PublicRule)

\* if (config.permissions) stack.push(...) in Express, whatever the handler;
\* if (config.permissions && !isPublic) in Hono
PermissionChecked(r) ==
    /\ r.config.permissions.present
    /\ (r.framework = "express" \/ r.config.permissions.rules[r.op] # PublicRule)

\* The permission stage begins: Express has it in the stack whenever
\* permissions are configured, Hono also skips it for a 'public' operation.
PermissionCheckStart ==
    /\ req.pc = "permission"
    /\ req' = IF PermissionChecked(req.in)
              THEN [req EXCEPT !.pc = "permissionWait",
                               !.trace = Append(@, "permission"),
                               !.ran = Append(@, "permission"),
                               !.inflight = {"permission"}]
              ELSE [req EXCEPT !.pc = "handler"]
    /\ UNCHANGED <<perm, fp, qb, store>>

\* await checkPermissions(...): it returns, or its error goes to the error handler.
PermissionCheckFinish ==
    /\ req.pc = "permissionWait"
    /\ LET r == checkPermissions(req.user, req.in.op, req.in.config.permissions,
                                 req.in.fnResult)
       IN  req' = IF PermissionPassed(r.outcome)
                  THEN [req EXCEPT !.pc = "handler", !.inflight = {},
                                   !.permission = r.outcome]
                  ELSE [req EXCEPT !.pc = "respond", !.inflight = {},
                                   !.permission = r.outcome,
                                   !.error = PermissionError(r.outcome)]
    /\ UNCHANGED <<perm, fp, qb, store>>

\* config.handlers[op] of the Express adapter: the developer's own handler takes
\* the place of the default one and answers by itself. Hono has no such option.
CustomHandler ==
    /\ req.pc = "handler"
    /\ req.in.framework = "express" /\ req.in.config.customHandler
    /\ req' = [req EXCEPT !.pc = "done", !.trace = Append(@, "response"),
                          !.ran = Append(@, "custom"),
                          !.response = DataResponse(200, "custom", NoMeta)]
    /\ UNCHANGED <<perm, fp, qb, store>>

\* The default handler, up to its before hook: listDocuments builds the query,
\* getDocument the projection, createDocument and updateDocument validate the
\* body against the schema, patchDocument checks the body and its keys.
OperationStart ==
    /\ req.pc = "handler"
    /\ ~(req.in.framework = "express" /\ req.in.config.customHandler)
    /\ LET op == req.in.op
           Fail(err) == [req EXCEPT !.pc = "respond", !.error = err]
           Listing(q) ==
               IF q.error # NoError THEN Fail(q.error)
               ELSE [req EXCEPT !.pc = "beforeHook", !.mongoQuery = q,
                                !.ctx = createCtx(q, NoBody)]
           Patching(err) ==
               IF err # NoError THEN Fail(err)
               ELSE [req EXCEPT !.pc = "beforeHook", !.ctx = createCtx(UndefV, req.body)]
           \* the context holds validation.data ?? data
           Validating(err) ==
               IF err # NoError THEN Fail(err)
               ELSE [req EXCEPT !.pc = "beforeHook",
                                !.ctx = createCtx(UndefV,
                                           IF req.in.validated = NoBody THEN req.body
                                           ELSE req.in.validated)]
           Entered(next) == [next EXCEPT !.ran = Append(@, "handler")]
       IN  req' = Entered(
             CASE op = "list" ->
                    Listing(buildQuery(req.in.query,
                                ListQueryOptions(req.in.config, req.in.config.adapter,
                                                 req.in.legacy)))
               [] op = "get" ->
                    [req EXCEPT !.pc = "beforeHook",
                                !.projection = GetProjection(QueryGet(req.in.query, S.fields)),
                                !.ctx = createCtx(UndefV, NoBody)]
               [] op \in {"create", "update"} ->
                    Validating(ValidationFailure(req.in.valid, req.in.errors))
               [] op = "patch" -> Patching(PatchBodyError(req.body))
               [] op = "delete" ->
                    [req EXCEPT !.pc = "beforeHook", !.ctx = createCtx(UndefV, NoBody)])
    /\ UNCHANGED <<perm, fp, qb, store>>

\* runHook(config.hooks, before...): nothing to run, or the hook is invoked
BeforeHookStart ==
    /\ req.pc = "beforeHook"
    /\ req' = IF req.in.config.hooks.before = "none"
              THEN [req EXCEPT !.pc = "store"]
              ELSE [req EXCEPT !.pc = "beforeHookWait",
                               !.trace = Append(@, BeforeHook[req.in.op]),
                               !.inflight = {BeforeHook[req.in.op]}]
    /\ UNCHANGED <<perm, fp, qb, store>>

\* the awaited before hook settles: its error is rethrown, preventDefault ends
\* the operation with status code 0, otherwise the operation goes on
BeforeHookFinish ==
    /\ req.pc = "beforeHookWait"
    /\ LET outcome == req.in.config.hooks.before
           ctx == BeforeHookEffect(req.ctx, outcome)
           thrown == runHookError(outcome, req.in.hookError)
       IN  req' = IF thrown # NoError
                  THEN [req EXCEPT !.pc = "respond", !.inflight = {}, !.error = thrown]
                  ELSE IF Prevented(ctx)
                  THEN [req EXCEPT !.pc = "respond", !.inflight = {}, !.ctx = ctx,
                                   !.statusCode = 0]
                  ELSE [req EXCEPT !.pc = "store", !.inflight = {}, !.ctx = ctx]
    /\ UNCHANGED <<perm, fp, qb, store>>

\* the store driver is called: find and countDocuments of a list together
\* (Promise.all), the single call of every other operation
StoreCallStart ==
    /\ req.pc = "store"
    /\ store' = store \o StoreCalls(req.in.op, req.ctx, req.mongoQuery, req.body,
                                    req.projection)
    /\ req' = [req EXCEPT !.pc = "storeWait",
                          !.trace = @ \o StoreMethods[req.in.op],
                          !.inflight = {StoreMethods[req.in.op][i] :
                                           i \in 1..Len(StoreMethods[req.in.op])}]
    /\ UNCHANGED <<perm, fp, qb>>

\* a store call settles; when all have, a missing document is NotFound (get,
\* update, patch, delete), otherwise the result goes into the hook context
StoreCallFinish(method) ==
    /\ req.pc = "storeWait"
    /\ method \in req.inflight
    /\ req' = IF req.inflight # {method}
              THEN [req EXCEPT !.inflight = @ \ {method}]
              ELSE IF Missing(req.in.op, req.in.found)
              THEN [req EXCEPT !.pc = "respond", !.inflight = {},
                               !.error = NotFoundError(req.in.collection, req.in.id)]
              ELSE [req EXCEPT !.pc = "afterHook", !.inflight = {},
                               !.ctx = [@ EXCEPT !.result = "stored"]]
    /\ UNCHANGED <<perm, fp, qb, store>>

\* runHook(config.hooks, after...): nothing to run, or the hook is invoked
AfterHookStart ==
    /\ req.pc = "afterHook"
    /\ req' = IF req.in.config.hooks.after = "none"
              THEN [req EXCEPT !.pc = "respond", !.statusCode = SuccessStatus(req.in.op)]
              ELSE [req EXCEPT !.pc = "afterHookWait",
                               !.trace = Append(@, AfterHook[req.in.op]),
                               !.inflight = {AfterHook[req.in.op]}]
    /\ UNCHANGED <<perm, fp, qb, store>>

\* the awaited after hook settles: its error is rethrown, otherwise the
\* operation returns 200 (201 for a create)
AfterHookFinish ==
    /\ req.pc = "afterHookWait"
    /\ LET thrown == runHookError(req.in.config.hooks.after, req.in.hookError)
       IN  req' = IF thrown # NoError
                  THEN [req EXCEPT !.pc = "respond", !.inflight = {}, !.error = thrown]
                  ELSE [req EXCEPT !.pc = "respond", !.inflight = {},
                                   !.ctx = AfterHookEffect(@, req.in.config.hooks.after),
                                   !.statusCode = SuccessStatus(req.in.op)]
    /\ UNCHANGED <<perm, fp, qb, store>>

\* The response: the error handler answers an error; status code 0 (a hook
\* prevented the default) sends nothing under Express and an empty 204 under
\* Hono; otherwise the data (ctx.result ?? the stored result) and, for a list,
\* the pagination meta are sent.
SendResponse ==
    /\ req.pc = "respond"
    /\ LET pagination == extractPagination(req.in.query, req.in.config.defaults.limit,
                                           req.in.config.defaults.maxLimit)
           meta == IF req.in.op = "list"
                   THEN buildPaginationMeta(req.in.total, pagination.page, pagination.limit)
                   ELSE NoMeta
           data == ResultData(req.ctx.result, "stored")
       IN  req' =
             IF req.error # NoError
             THEN [req EXCEPT !.pc = "done", !.trace = Append(@, "response"),
                              !.response = ErrorResponse(req.error, req.in.production)]
             ELSE IF req.statusCode = 0
             THEN (IF req.in.framework = "express"
                   THEN [req EXCEPT !.pc = "done"]
                   ELSE [req EXCEPT !.pc = "done", !.trace = Append(@, "response"),
                                    !.response = DataResponse(204, "none", NoMeta)])
             ELSE [req EXCEPT !.pc = "done", !.trace = Append(@, "response"),
                              !.response = DataResponse(req.statusCode, data, meta)]
    /\ UNCHANGED <<perm, fp, qb, store>>

\* The request is over; the next one may come.
Release ==
    /\ req.pc = "done"
    /\ req' = Idle
    /\ store' = NoCalls
    /\ UNCHANGED <<perm, fp, qb>>

(***************************************************************************)
(* the pipeline on bounded requests                                        *)
(***************************************************************************)

\* the most top-level keys of a request body
MaxKeys == 2

\* a collection without permissions, hooks or query configuration, behind an
\* authentication middleware, and a harmless request to it
BaseConfig ==
    [auth |-> TRUE, permissions |-> NoPermissions, customHandler |-> FALSE,
     hooks |-> [before |-> "none", after |-> "none"], query |-> NoQueryConfig,
     defaults |-> NoDefaults, adapter |-> UserAdapter,
     middleware |-> [all |-> FALSE, op |-> FALSE]]
BaseRequest(framework, op) ==
    [framework |-> framework, op |-> op, config |-> BaseConfig, credentials |-> NoUser,
     authOutcome |-> "next",
     fnResult |-> "true", query |-> <<>>, sent |-> ObjectBody(<<S.name>>),
     valid |-> TRUE, errors |-> Undefined, validated |-> NoBody,
     collection |-> "users", id |-> "1", found |-> TRUE, total |-> 25,
     hookError |-> UntypedError("hook failed"), production |-> FALSE, legacy |-> FALSE]

Admin == [present |-> TRUE, hasRoles |-> TRUE, roles |-> {"admin"}]
PipelineUsers == {NoUser, Admin, [present |-> TRUE, hasRoles |-> TRUE, roles |-> {"user"}]}
PipelineRules == {NoRule, PublicRule, RolesRule({"admin"}), FunctionRule}

\* every operation under every permission rule, user, hook behaviour and store
\* answer, with and without authentication middleware and custom handler
StageRequests ==
    {r \in {[BaseRequest(fw, op) EXCEPT
                !.config.auth = a, !.config.customHandler = ch,
                !.config.permissions =
                    IF p THEN PermissionConfigOf(op, rule, NoRule) ELSE NoPermissions,
                !.config.hooks = [before |-> b, after |-> af],
                !.credentials = u, !.fnResult = fr, !.found = fd] :
                    fw \in Frameworks, op \in RouteOps, a \in BOOLEAN, ch \in BOOLEAN,
                    p \in BOOLEAN, rule \in PipelineRules, b \in BeforeOutcomes,
                    af \in AfterOutcomes, u \in PipelineUsers, fr \in FnResults,
                    fd \in BOOLEAN} :
        /\ r.config.auth \/ r.credentials = Admin
        /\ r.fnResult = "true"
              \/ (r.config.permissions.rules[r.op] = FunctionRule /\ r.config.auth
                    /\ r.credentials.present)
        /\ r.config.hooks.before \in {"none", "ok"} \/ r.config.hooks.after \in {"none", "ok"}
        /\ r.config.customHandler =>
              (r.framework = "express" /\ r.config.hooks.before = "none"
                 /\ r.config.hooks.after = "none" /\ r.found)}

\* requests through every shape of stack: with and without authentication
\* middleware (which lets the request pass or rejects it), collection-wide and
\* per-operation middleware, permission rule and custom handler
MiddlewareRequests ==
    {r \in {[BaseRequest(fw, op) EXCEPT
                !.config.auth = a, !.authOutcome = ao, !.config.customHandler = ch,
                !.config.middleware = [all |-> ma, op |-> mo],
                !.config.permissions =
                    IF p THEN PermissionConfigOf(op, RolesRule({"admin"}), NoRule)
                    ELSE NoPermissions,
                !.config.hooks.before = b,
                !.credentials = u] :
                    fw \in Frameworks, op \in {"list", "delete"}, a \in BOOLEAN,
                    ao \in {"next", "reject"}, ch \in BOOLEAN, ma \in BOOLEAN,
                    mo \in BOOLEAN, p \in BOOLEAN, b \in {"none", "ok"},
                    u \in PipelineUsers} :
        /\ r.config.auth \/ (r.authOutcome = "next" /\ r.credentials = NoUser)
        /\ r.config.customHandler => (r.framework = "express" /\ r.config.hooks.before = "none")
        /\ r.framework = "hono" => (~r.config.middleware.all /\ ~r.config.middleware.op)}

\* what a hook throws: an error of its own, or a typed error with details
HookErrors ==
    {UntypedError("hook failed"),
     WithDetails(MonapiError("MonapiError", 409, "CONFLICT", "hook refused"), "reason")}

\* a throwing before or after hook, in and outside production mode
HookErrorRequests ==
    {[BaseRequest(fw, op) EXCEPT !.config.hooks = h, !.hookError = he, !.production = pr] :
        fw \in Frameworks, op \in RouteOps,
        h \in {[before |-> "throw", after |-> "ok"], [before |-> "ok", after |-> "throw"],
                [before |-> "none", after |-> "throw"]},
        he \in HookErrors, pr \in BOOLEAN}

\* the per-field error lists of the schema adapter's validate
ValidationErrors == {"[name: required]", "[name: required, age: not a number]"}

\* requests for one record: valid and invalid bodies (create, update), with or
\* without data returned by the validation, records that exist and that do not
RecordRequests ==
    {r \in {[BaseRequest(fw, op) EXCEPT
                !.valid = v, !.errors = e, !.validated = vd, !.found = fd, !.id = id,
                !.config.hooks = [before |-> b, after |-> af], !.production = pr] :
                    fw \in Frameworks, op \in RouteOps \ {"list"}, v \in BOOLEAN,
                    e \in ValidationErrors \cup {Undefined},
                    vd \in {NoBody, ObjectBody(<<S.name, S.age>>)}, fd \in BOOLEAN,
                    id \in {"1", "2"}, b \in {"none", "ok", "clear"},
                    af \in {"none", "ok"}, pr \in BOOLEAN} :
        /\ (r.valid /\ r.errors = Undefined /\ ~r.production)
              \/ (~r.valid /\ r.errors # Undefined /\ r.validated = NoBody
                    /\ r.op \in {"create", "update"} /\ r.found)
        /\ r.validated = NoBody \/ r.op \in {"create", "update"}
        /\ r.config.hooks.before # "clear" \/ r.op \in {"create", "update"}}

\* c.req.query() of Hono is flat: every value is a string
FlatQuery(query) == \A i \in 1..Len(query) : query[i].value.t \in {"string", "undefined"}

ListConfigs ==
    {[BaseConfig EXCEPT !.query = qc, !.hooks.before = b] :
        qc \in {NoQueryConfig,
                QueryConfigOf(ListOf({S.age}), ListOf({S.age, S.secret}),
                              StrV(<<"-">> \o S.age), UndefV, UndefV)},
        b \in {"none", "rewrite"}}
    \cup {[BaseConfig EXCEPT !.defaults = DefaultsOf(NoQueryConfig, IntV(3), IntV(4), IntV(2))]}

\* list requests: one filter condition, a sort or a fields list, a page and a limit
ListRequests ==
    {r \in {[BaseRequest(fw, "list") EXCEPT !.config = c, !.query = q] :
                fw \in Frameworks, c \in ListConfigs,
                q \in SingleQueries \cup ListQueries
                      \cup {<<Param(S.page, pg), Param(S.limit, lm)>> :
                               pg \in FewPageValues,
                               lm \in FewPageValues \cup {StrV(<<"x">>)}}} :
        r.framework = "hono" => FlatQuery(r.query)}

\* list requests to collections with limits of their own (config.query), with
\* and without global pagination defaults and a global query configuration
LimitConfigs ==
    {[BaseConfig EXCEPT !.query = qc, !.defaults = d] :
        qc \in {NoQueryConfig,
                QueryConfigOf(NoList, NoList, UndefV, IntV(5), UndefV),
                QueryConfigOf(NoList, NoList, UndefV, UndefV, IntV(2)),
                QueryConfigOf(NoList, NoList, UndefV, IntV(5), IntV(7))},
        d \in {NoDefaults,
               DefaultsOf(NoQueryConfig, IntV(3), IntV(4), UndefV),
               DefaultsOf(QueryConfigOf(NoList, NoList, UndefV, IntV(6), IntV(8)),
                          UndefV, UndefV, UndefV)}}

LimitRequests ==
    {[BaseRequest(fw, "list") EXCEPT !.config = c,
                                    !.query = <<Param(S.page, pg), Param(S.limit, lm)>>] :
        fw \in Frameworks, c \in LimitConfigs,
        pg \in {UndefV, StrV(<<"2">>)}, lm \in {UndefV, StrV(<<"9">>), StrV(<<"1">>)}}

\* get requests with a fields list
GetRequests ==
    {r \in {[BaseRequest(fw, "get") EXCEPT !.query = <<Param(S.fields, v)>>, !.found = fd] :
                fw \in Frameworks, v \in ListValues, fd \in BOOLEAN} :
        r.framework = "hono" => FlatQuery(r.query)}

\* patch bodies: objects of up to MaxKeys keys, and what is no object
Bodies ==
    {ObjectBody(keys) : keys \in DistinctSeqs({S.name, S.role, S.dollarSet}, MaxKeys)}
    \cup {ArrayBody, NullBody, StringBody, NumberBody, NoBody}

PatchRequests ==
    {[BaseRequest(fw, "patch") EXCEPT
         !.sent = body, !.found = fd, !.config.hooks.before = b,
         !.config.permissions =
             IF p THEN PermissionConfigOf("patch", RolesRule({"admin"}), NoRule)
             ELSE NoPermissions,
         !.credentials = u] :
        fw \in Frameworks, body \in Bodies, fd \in BOOLEAN,
        b \in {"none", "ok", "rewrite"}, p \in BOOLEAN, u \in {NoUser, Admin}}

Init ==
    /\ perm = Idle
    /\ fp = Idle
    /\ qb = Idle
    /\ req = Idle
    /\ store = NoCalls

Next ==
    \/ req.pc = "idle" /\ \E r \in StageRequests \cup MiddlewareRequests : ReceiveRequest(r)
    \/ req.pc = "idle" /\ \E r \in HookErrorRequests : ReceiveRequest(r)
    \/ req.pc = "idle" /\ \E r \in RecordRequests : ReceiveRequest(r)
    \/ req.pc = "idle" /\ \E r \in ListRequests \cup LimitRequests : ReceiveRequest(r)
    \/ req.pc = "idle" /\ \E r \in GetRequests : ReceiveRequest(r)
    \/ req.pc = "idle" /\ \E r \in PatchRequests : ReceiveRequest(r)
    \/ AuthMiddleware
    \/ CollectionMiddleware
    \/ OperationMiddleware
    \/ PermissionCheckStart
    \/ PermissionCheckFinish
    \/ CustomHandler
    \/ OperationStart
    \/ BeforeHookStart
    \/ BeforeHookFinish
    \/ StoreCallStart
    \/ \E method \in {"find", "countDocuments", "findById", "create",
                      "findByIdAndUpdate", "findByIdAndDelete"} : StoreCallFinish(method)
    \/ AfterHookStart
    \/ AfterHookFinish
    \/ SendResponse
    \/ Release

Spec == Init /\ [][Next]_vars

\* the rank of a stage in the order permission check, before hook, store
\* call, after hook, response
StageRank(stage) ==
    IF stage = "permission" THEN 1
    ELSE IF \E op \in RouteOps : stage = BeforeHook[op] THEN 2
    ELSE IF \E op \in RouteOps : stage = AfterHook[op] THEN 4
    ELSE IF stage = "response" THEN 5
    ELSE 3

InFlight == req.pc # "idle"
NoHooks == req.in.config.hooks = [before |-> "none", after |-> "none"]
\* the default handler was reached: no permission stage, or it allowed
HandlerReached ==
    req.permission \in {"none", "allow"}
        /\ ~(req.in.framework = "express" /\ req.in.config.customHandler)

\* C4: the stages of a request start in the order permission check, before
\* hook, store call, after hook, response (only the two store calls of a list
\* share a rank); whatever is in flight belongs to the stage started last, so
\* no stage starts before the previous one has completed; and once the
\* permission check has failed, no hook has started and no store call was made.
C4_StageOrder ==
    InFlight =>
        /\ \A i, j \in 1..Len(req.trace) :
              i < j => /\ StageRank(req.trace[i]) <= StageRank(req.trace[j])
                       /\ StageRank(req.trace[i]) = StageRank(req.trace[j])
                             => StageRank(req.trace[i]) = 3
        /\ \A stage \in req.inflight :
              /\ req.trace # <<>>
              /\ StageRank(stage) = StageRank(req.trace[Len(req.trace)])
        /\ req.permission \notin {"none", "allow"} =>
              /\ \A i \in 1..Len(req.trace) : req.trace[i] \in {"permission", "response"}
              /\ store = NoCalls

\* a list request that went through all five stages
C4_Witness ==
    /\ req.pc = "done"
    /\ req.trace = <<"permission", "beforeFind", "find", "countDocuments", "afterFind",
                     "response">>
    /\ req.permission = "allow" /\ req.response.status = 200
    /\ Len(store) = 2

\* the names a store call is given: the fields of the filter, of the sort and
\* of the projection, the top-level keys of the data
CallNames(call) ==
    CASE call.method = "find" ->
           DOMAIN call.filter \cup {call.sort[i].field : i \in 1..Len(call.sort)}
           \cup call.projection.list
      [] call.method = "countDocuments" -> DOMAIN call.filter
      [] call.method = "findById" -> call.projection.list
      [] call.method \in {"create", "findByIdAndUpdate"} ->
           {call.data.keys[i] : i \in 1..Len(call.data.keys)}
      [] OTHER -> {}

\* the names a request asks to filter, sort and project by, and the keys it
\* asks to write
FilterNames(query) == {c.field : c \in Conditions(query)}
SortNames(query) ==
    LET param == QueryGet(query, S.sort)
        items == IF Truthy(param) THEN ListItems(param) ELSE <<>>
    IN  {IF StartsWith(items[i], "-") THEN Tail(items[i]) ELSE items[i] :
            i \in {j \in 1..Len(items) : items[j] # <<>>}}
ProjectionNames(query) ==
    LET param == QueryGet(query, S.fields)
        items == IF Truthy(param) THEN ListItems(param) ELSE <<>>
    IN  {Trim(items[i]) : i \in 1..Len(items)} \ {<<>>}
BodyKeys(body) == {body.keys[i] : i \in 1..Len(body.keys)}

RequestNames ==
    CASE req.in.op = "list" ->
           FilterNames(req.in.query) \cup SortNames(req.in.query)
           \cup ProjectionNames(req.in.query)
      [] req.in.op = "get" -> ProjectionNames(req.in.query)
      [] req.in.op = "patch" -> BodyKeys(req.body)
      [] OTHER -> {}

\* C5: with no hooks configured, for a list, get or patch request, no name
\* beginning with '$' is among the filter fields, sort fields, projection
\* entries or top-level data keys given to a store call, and a request carrying
\* such a name ends in an error response.
C5_DollarNamesRejected ==
    (InFlight /\ NoHooks /\ req.in.op \in {"list", "get", "patch"}) =>
        /\ \A i \in 1..Len(store) : \A n \in CallNames(store[i]) : ~StartsWith(n, "$")
        /\ (req.pc = "done" /\ \E n \in RequestNames : StartsWith(n, "$"))
              => req.response.status >= 400

\* what patchDocument does not take as a body
BadPatchBody(body) ==
    body.t # "object" \/ \E k \in BodyKeys(body) : StartsWith(k, "$")

\* C6 as stated: a patch request whose body is no plain object or has a
\* top-level key beginning with '$' never starts the beforeUpdate hook, never
\* calls the store, and (having passed the permission check) is answered with
\* status 400 and the BadRequest kind.
C6_PatchRejectedBadRequest ==
    (InFlight /\ req.in.op = "patch" /\ BadPatchBody(req.body)) =>
        /\ \A i \in 1..Len(req.trace) : req.trace[i] # "beforeUpdate"
        /\ store = NoCalls
        /\ (req.pc = "done" /\ HandlerReached) =>
              (req.response.status = 400 /\ req.response.code = "BAD_REQUEST")

\* C6, amended: the same, but the error is the ValidationError kind (status
\* 400, code VALIDATION_ERROR).
C6_PatchRejectedValidation ==
    (InFlight /\ req.in.op = "patch" /\ BadPatchBody(req.body)) =>
        /\ \A i \in 1..Len(req.trace) : req.trace[i] # "beforeUpdate"
        /\ store = NoCalls
        /\ (req.pc = "done" /\ HandlerReached) =>
              (req.response.status = 400 /\ req.response.code = "VALIDATION_ERROR")

\* an admin's patch with an operator key, on a collection with a beforeUpdate hook
C6_Witness ==
    /\ req.pc = "done" /\ req.in.op = "patch"
    /\ S.dollarSet \in BodyKeys(req.body) /\ S.name \in BodyKeys(req.body)
    /\ req.in.config.hooks.before = "ok" /\ req.permission = "allow"
    /\ req.response.code = "VALIDATION_ERROR"
    /\ req.trace = <<"permission", "response">>

\* the allowed sets of a list request: the configured ones, else the schema's
ListAllowed ==
    LET options == ListQueryOptions(req.in.config, req.in.config.adapter, req.in.legacy)
    IN  [filters |-> AllowedFields(options.queryConfig, options.adapter).list,
         sorts |-> AllowedSorts(options.queryConfig, options.adapter).list,
         fields |-> getFields(options.adapter).list]

\* C7: a list request that names a filter field (with a non-empty value), a
\* sort field or a projection entry outside the applicable allowed set never
\* reaches the store and is answered 400 BadRequest; and the store calls made
\* with the query built from a request name no field outside the allowed sets.
C7_WhitelistSound ==
    (InFlight /\ req.in.op = "list") =>
        /\ (\/ FilterNames(req.in.query) \ ListAllowed.filters # {}
            \/ SortNames(req.in.query) \ ListAllowed.sorts # {}
            \/ ProjectionNames(req.in.query) \ ListAllowed.fields # {}) =>
              /\ store = NoCalls
              /\ (req.pc = "done" /\ HandlerReached) =>
                    (req.response.status = 400 /\ req.response.code = "BAD_REQUEST")
        /\ req.in.config.hooks.before \notin {"rewrite"} =>
              \A i \in 1..Len(store) :
                 /\ DOMAIN store[i].filter \subseteq ListAllowed.filters
                 /\ store[i].method = "find" =>
                       /\ \A k \in 1..Len(store[i].sort) :
                             store[i].sort[k].field \in ListAllowed.sorts
                       /\ store[i].projection.list \subseteq ListAllowed.fields

\* a sort by a field of neither the configured set nor the schema
C7_Witness ==
    /\ req.pc = "done" /\ req.in.op = "list"
    /\ SortNames(req.in.query) = {S.age, S.secret}
    /\ ~req.in.config.query.present
    /\ req.response.code = "BAD_REQUEST" /\ store = NoCalls

\* a stage is among those started so far
InTrace(stage) == \E i \in 1..Len(req.trace) : req.trace[i] = stage
\* the operation has returned or thrown
Settled == req.pc \in {"respond", "done"}

C12_HookErrorPropagates ==
    InFlight =>
        /\ (/\ req.in.config.hooks.before = "throw"
            /\ InTrace(BeforeHook[req.in.op]) /\ req.pc # "beforeHookWait") =>
              /\ store = NoCalls
              /\ ~InTrace(AfterHook[req.in.op])
              /\ req.error = req.in.hookError
              /\ req.pc = "done" => (req.response.status >= 400 /\ req.response.data = "none")
        /\ (/\ req.in.config.hooks.after = "throw"
            /\ InTrace(AfterHook[req.in.op]) /\ req.pc # "afterHookWait") =>
              /\ req.error = req.in.hookError
              /\ req.pc = "done" => (req.response.status >= 400 /\ req.response.data = "none")

\* an afterUpdate hook throwing a typed error after the store call
C12_Witness ==
    /\ req.pc = "done" /\ req.in.op = "update"
    /\ req.in.config.hooks.after = "throw" /\ req.in.hookError.name = "MonapiError"
    /\ req.trace = <<"beforeUpdate", "findByIdAndUpdate", "afterUpdate", "response">>
    /\ req.response.code = "CONFLICT" /\ req.response.status = 409

\* C13: a create or update whose body the schema adapter reports invalid fails
\* with ValidationError (status 400) carrying the adapter's error list; no hook
\* is started and the store is not called.
C13_InvalidBodyRejected ==
    (/\ InFlight /\ req.in.op \in {"create", "update"} /\ ~req.in.valid
     /\ HandlerReached /\ req.pc \notin {"auth", "permission", "permissionWait", "handler"}) =>
        /\ req.error.name = "ValidationError" /\ req.error.statusCode = 400
        /\ req.error.details = req.in.errors
        /\ \A i \in 1..Len(req.trace) : req.trace[i] \in {"permission", "response"}
        /\ store = NoCalls
        /\ req.pc = "done" =>
              /\ req.response.status = 400 /\ req.response.code = "VALIDATION_ERROR"
              /\ req.response.details = req.in.errors

\* an invalid replace on a collection with both hooks
C13_Witness ==
    /\ req.pc = "done" /\ req.in.op = "update" /\ ~req.in.valid
    /\ req.in.config.hooks = [before |-> "ok", after |-> "ok"]
    /\ req.response.details = "[name: required, age: not a number]"
    /\ req.trace = <<"response">>

\* C14: a get, update, patch or delete whose store call found no record fails
\* with NotFound (status 404) naming the collection and the id; the after hook
\* is not run and no data, null or other, is returned.
C14_MissingRecordNotFound ==
    (/\ InFlight /\ req.in.op \in {"get", "update", "patch", "delete"} /\ ~req.in.found
     /\ store # NoCalls /\ Settled) =>
        /\ req.error.name = "NotFoundError" /\ req.error.statusCode = 404
        /\ req.error.message
              = req.in.collection \o " with id '" \o req.in.id \o "' not found"
        /\ ~InTrace(AfterHook[req.in.op])
        /\ req.statusCode = -1
        /\ req.pc = "done" =>
              /\ req.response.status = 404 /\ req.response.code = "NOT_FOUND"
              /\ req.response.data = "none"

\* a delete of a record that is not there, with an afterDelete hook
C14_Witness ==
    /\ req.pc = "done" /\ req.in.op = "delete" /\ ~req.in.found /\ req.in.id = "2"
    /\ req.in.config.hooks.after = "ok"
    /\ req.error.message = "users with id '2' not found"
    /\ req.response.status = 404
    /\ req.trace = <<"findByIdAndDelete", "response">>

\* C15: when the after hook has run and the operation succeeded, the data of
\* the response is what ctx.result held when the hook returned, null and
\* undefined included.
C15_AfterHookResult ==
    (/\ req.pc = "done" /\ InTrace(AfterHook[req.in.op]) /\ req.error = NoError) =>
        req.response.data = req.ctx.result

\* C16: the store calls of a list have the filter, sort, skip, limit and
\* projection of ctx.query as the before hook left it, the count the filter of
\* the fetch; the store call of a create, update or patch has ctx.data as the
\* before hook left it.
C16_StoreInput ==
    (/\ InFlight /\ InTrace(BeforeHook[req.in.op]) /\ store # NoCalls
     /\ req.in.op \in {"list", "create", "update", "patch"}) =>
        IF req.in.op = "list"
        THEN /\ req.ctx.query # UndefV
             /\ store[1] = [method |-> "find", filter |-> req.ctx.query.filter,
                             sort |-> req.ctx.query.sort, skip |-> req.ctx.query.skip,
                             limit |-> req.ctx.query.limit,
                             projection |-> req.ctx.query.projection]
             /\ store[2] = [method |-> "countDocuments", filter |-> store[1].filter]
        ELSE store[1].data = req.ctx.data

\* C19: an error is answered with its own status code, code string and details
\* when it is a MonapiError, and otherwise with 500 and INTERNAL_ERROR, its
\* message outside production mode and the generic one inside it.
C19_ErrorBoundary ==
    (req.pc = "done" /\ req.error # NoError) =>
        IF req.error.name # "Error"
        THEN /\ req.response.status = req.error.statusCode
             /\ req.response.code = req.error.code
             /\ req.response.details = req.error.details
        ELSE /\ req.response.status = 500 /\ req.response.code = "INTERNAL_ERROR"
             /\ req.response.message
                   = IF req.in.production THEN "Internal server error"
                     ELSE req.error.message

\* a hook's own error answered in production mode
C19_Witness ==
    /\ req.pc = "done" /\ req.in.production /\ req.error = UntypedError("hook failed")
    /\ req.response.status = 500 /\ req.response.message = "Internal server error"

\* C20: an operation that returned a result other than the status code 0 is
\* answered 201 for a create and 200 otherwise; a list carries the meta (page,
\* limit, total, totalPages), no other operation carries any.
C20_SuccessStatus ==
    (req.pc = "done" /\ req.error = NoError /\ req.statusCode > 0) =>
        /\ req.response.status = IF req.in.op = "create" THEN 201 ELSE 200
        /\ req.in.op = "list" =>
              /\ req.response.meta # NoMeta
              /\ req.response.meta.total = req.in.total
              /\ req.response.meta.page >= 1 /\ req.response.meta.limit >= 1
              /\ req.response.meta.totalPages * req.response.meta.limit >= req.in.total
        /\ req.in.op # "list" => req.response.meta = NoMeta

\* a create whose afterCreate hook replaced the result
C20_Witness ==
    /\ req.pc = "done" /\ req.in.op = "create" /\ req.response.status = 201
    /\ req.in.config.hooks.after = "replace" /\ req.response.data = "hookResult"
    /\ req.response.meta = NoMeta

\* what the list operation makes of the fields parameter of the request
ListProjectionOfRequest ==
    parseProjection(QueryGet(req.in.query, S.fields), req.in.config.adapter)

\* C28: the fields parameter of a get request obeys the rules of the list
\* operation: an entry beginning with '$' or an entry outside the schema ends
\* the request with BadRequest before the store is called, and otherwise the
\* record is read with the fields the list operation would select (all of
\* them when the resulting set is empty).
C28_GetProjectionRules ==
    (req.pc = "done" /\ req.in.op = "get" /\ NoHooks
       /\ QueryGet(req.in.query, S.fields) # UndefV)
        => /\ ListProjectionOfRequest.error # NoError
                 => (req.response.status = 400 /\ store = NoCalls)
           /\ ListProjectionOfRequest.error = NoError
                 => \E i \in 1..Len(store) :
                       /\ store[i].method = "findById"
                       /\ store[i].projection.list = ListProjectionOfRequest.projection.list

\* C32: in a list response of the engine (no hook rewriting the query) the page and limit of
\* the meta are those from which the store fetch took its skip and limit:
\* the fetch was limited to meta.limit records and skipped
\* (meta.page - 1) * meta.limit, so totalPages counts pages of the applied size.
C32_MetaMatchesFetch ==
    (req.pc = "done" /\ req.in.op = "list" /\ NoHooks /\ ~req.in.config.customHandler
       /\ req.response.status = 200)
        => \E i \in 1..Len(store) :
              /\ store[i].method = "find"
              /\ store[i].limit = req.response.meta.limit
              /\ store[i].skip = (req.response.meta.page - 1) * req.response.meta.limit
              /\ req.response.meta.totalPages
                    = MathCeil(req.response.meta.total, store[i].limit)

\* C35: when the operation has returned the sentinel (status code 0, a before
\* hook having prevented the default), the adapter sends nothing of its own:
\* the finished request has no status and no body written by the adapter,
\* under Express and under Hono alike.
C35_SentinelWritesNothing ==
    (req.pc = "done" /\ req.statusCode = 0 /\ req.error = NoError)
        => /\ req.response = NoResponse
           /\ ~InTrace("response")

\* the entries an Express router pushes before the handler, in order
\* (ExpressAdapter.buildCollectionRouter and createCollectionRouter alike)
StackBeforeHandler(r) ==
    (IF r.config.auth THEN <<"auth">> ELSE <<>>)
    \o (IF r.config.middleware.all THEN <<"all">> ELSE <<>>)
    \o (IF r.config.middleware.op THEN <<"op">> ELSE <<>>)
    \o (IF r.config.permissions.present THEN <<"permission">> ELSE <<>>)

IsPrefix(s, t) == Len(s) <= Len(t) /\ s = SubSeq(t, 1, Len(s))

\* the handler of the route, the default one or the developer's own
Handlers == {"handler", "custom"}

\* the entries run so far, the handler left out
RanBeforeHandler == SelectSeq(req.ran, LAMBDA entry : entry \notin Handlers)

\* the handler, default or custom, has been entered
HandlerEntered == \E i \in 1..Len(req.ran) : req.ran[i] \in Handlers

C38_HonoAuthRejectStops ==
    (/\ InFlight
     /\ req.in.framework = "hono"
     /\ req.in.config.auth /\ req.in.authOutcome = "reject"
     /\ req.in.config.permissions.rules[req.in.op] # PublicRule)
        => /\ req.trace = <<>> \/ req.trace = <<"response">>
           /\ store = NoCalls
           /\ ~HandlerEntered

\* the operations that change the store
WriteOps == {"create", "update", "patch", "delete"}

\* the after hook of a write was invoked and threw
AfterHookThrew ==
    /\ req.pc \in {"respond", "done"}
    /\ req.in.op \in WriteOps
    /\ req.in.config.hooks.after = "throw"
    /\ InTrace(AfterHook[req.in.op])

\* C36: when the after hook of create, replace, patch or delete throws, the
\* request ends in an error response (the hook's error, no data), although
\* the store call of the request was made before the hook and is the last
\* call the request makes: nothing is issued to undo it.
C36_AfterHookErrorKeepsWrite ==
    AfterHookThrew =>
        /\ req.error = req.in.hookError
        /\ store = StoreCalls(req.in.op, req.ctx, req.mongoQuery, req.body, req.projection)
        /\ Len(store) = 1 /\ store[1].method = StoreMethods[req.in.op][1]
        /\ req.pc = "done" =>
              /\ req.response.status >= 400
              /\ req.response.data = "none"
              /\ req.trace[Len(req.trace)] = "response"
              /\ \E i \in 1..Len(req.trace) :
                    /\ req.trace[i] = StoreMethods[req.in.op][1]
                    /\ req.trace[i + 1] = AfterHook[req.in.op]

\* a create whose after hook threw: the record was written, the client got the error
C36_Witness ==
    /\ req.pc = "done" /\ AfterHookThrew /\ req.in.op = "create"
    /\ store = <<[method |-> "create", data |-> req.body]>>
    /\ req.response.status = 409

(***************************************************************************)
(* buildPaginationMeta on bounded inputs                                   *)
(***************************************************************************)
\* the largest total, limit and page of a call
MaxTotal == 12
MaxPageSize == 6
MaxPage == 3

\* One call of buildPaginationMeta on inputs of the caller's choosing.
BuildPaginationMetaCall(total, page, limit) ==
    /\ qb.pc = "idle"
    /\ qb' = [pc |-> "meta", total |-> total, page |-> page, limit |-> limit,
              result |-> buildPaginationMeta(total, page, limit)]
    /\ UNCHANGED <<perm, fp, req, store>>

\* The caller has taken the metadata; the next call may start.
BuildPaginationMetaReturn ==
    /\ qb.pc = "meta"
    /\ qb' = Idle
    /\ UNCHANGED <<perm, fp, req, store>>

InitMeta ==
    /\ perm = Idle
    /\ fp = Idle
    /\ qb = Idle
    /\ req = Idle
    /\ store = NoCalls

NextMeta ==
    \/ qb.pc = "idle" /\ \E total \in 0..MaxTotal, page \in 1..MaxPage,
                             limit \in 1..MaxPageSize :
                           BuildPaginationMetaCall(total, page, limit)
    \/ BuildPaginationMetaReturn

SpecMeta == InitMeta /\ [][NextMeta]_vars

\* C17: for a total >= 0 and a limit >= 1, buildPaginationMeta returns page,
\* limit and total unchanged, and totalPages is 0 exactly when total is 0 and
\* otherwise the least n with n * limit >= total.
C17_TotalPages ==
    (qb.pc = "meta" /\ qb.total >= 0 /\ qb.limit >= 1) =>
        /\ qb.result.page = qb.page /\ qb.result.limit = qb.limit
        /\ qb.result.total = qb.total
        /\ qb.result.totalPages = 0 <=> qb.total = 0
        /\ qb.result.totalPages * qb.limit >= qb.total
        /\ \A n \in 0..MaxTotal : n * qb.limit >= qb.total => n >= qb.result.totalPages

\* a last page that is not full
C17_Witness ==
    /\ qb.pc = "meta" /\ qb.total = 11 /\ qb.limit = 5 /\ qb.page = 2
    /\ qb.result.totalPages = 3

(***************************************************************************)
(* a list request repeated against the same store                          *)
(***************************************************************************)
\* a store whose every call adds a document
StoreTotalCounting(total, calls) == total + Len(calls)

\* the number of documents in the store after the calls of a request: create
\* adds one; find, countDocuments and findById read (a delete or an update is
\* not among the calls of a list)
StoreTotalAfter(total, calls) ==
    total + Cardinality({i \in 1..Len(calls) : calls[i].method = "create"})

\* list requests under every hook behaviour, on an empty and a filled store
RepeatRequests ==
    {[BaseRequest(fw, "list") EXCEPT
         !.config.hooks = [before |-> b, after |-> af], !.query = q, !.total = t] :
        fw \in Frameworks, b \in BeforeOutcomes, af \in AfterOutcomes,
        q \in {<<>>, <<Param(S.page, StrV(<<"9">>)), Param(S.limit, StrV(<<"9">>))>>,
                <<Param(S.age, StrV(<<"9">>))>>, <<Param(S.sort, StrV(S.secret))>>},
        t \in {0, 25}}

\* The same request is sent again, to the store as the first one left it.
RepeatRequest ==
    /\ req.pc = "done" /\ req.round = 1
    /\ req' = Accepted([req.in EXCEPT !.total = StoreTotalAfter(@, store)], 2, req.response)
    /\ store' = NoCalls
    /\ UNCHANGED <<perm, fp, qb>>

InitRepeat ==
    /\ perm = Idle
    /\ fp = Idle
    /\ qb = Idle
    /\ req = Idle
    /\ store = NoCalls

NextRepeat ==
    \/ req.pc = "idle" /\ \E r \in RepeatRequests : ReceiveRequest(r)
    \/ AuthMiddleware
    \/ PermissionCheckStart
    \/ OperationStart
    \/ BeforeHookStart
    \/ BeforeHookFinish
    \/ StoreCallStart
    \/ \E method \in {"find", "countDocuments"} : StoreCallFinish(method)
    \/ AfterHookStart
    \/ AfterHookFinish
    \/ SendResponse
    \/ RepeatRequest
    \/ req.pc = "done" /\ req.round = 2 /\ Release

SpecRepeat == InitRepeat /\ [][NextRepeat]_vars

MaxHooks == 2

\* the stages of LifecycleHooks a call may ask for
HookNames == {"beforeFind", "afterFind", "beforeCreate", "afterCreate"}

\* what a hook function does with the context: nothing, write to it, throw
HookFunctions == {"ok", "rewrite", "throw"}

\* a hook set: undefined, or an object with a function for some of the stages
NoHookSet == [present |-> FALSE, fns |-> <<>>]
HookSetOf(fns) == [present |-> TRUE, fns |-> fns]

HookSets ==
    {NoHookSet}
    \cup {HookSetOf(fns) :
            fns \in UNION {[names -> HookFunctions] :
                              names \in {n \in SUBSET HookNames : Cardinality(n) <= MaxHooks}}}

\* createHookContext: a new object (ref names it) with the fields of params,
\* the user of the request and an empty meta
createHookContext(ref, params) ==
    [ref |-> ref, collection |-> params.collection, operation |-> params.operation,
     user |-> params.user, query |-> UndefV, data |-> params.data, id |-> params.id,
     result |-> params.result, meta |-> <<>>]

HookContexts ==
    {createHookContext("ctx",
         [collection |-> "users", operation |-> op, user |-> u, data |-> d, id |-> id,
          result |-> r]) :
        op \in {"find", "create"}, u \in {NoUser, Admin},
        d \in {NoBody, ObjectBody(<<S.name>>)}, id \in {Undefined, "1"},
        r \in {Undefined, "doc"}}

\* a fresh object with the fields of ctx
CopyOf(ctx) == [ctx EXCEPT !.ref = "copy"]
\* `return ctx`: the object that was passed in
SameObject(ctx) == ctx

\* hookFn(ctx): the object after the call (a hook writes to the object it is
\* given), or the error thrown
HookFunctionEffect(fn, ctx) ==
    CASE fn = "ok" -> [ctx |-> ctx, error |-> NoError]
      [] fn = "rewrite" ->
           [ctx |-> [ctx EXCEPT !.data = ObjectBody(<<S.role>>), !.meta = <<"seen">>],
            error |-> NoError]
      [] fn = "throw" -> [ctx |-> ctx, error |-> UntypedError("hook failed")]

\* executeHook: [returned, ctx, calls, logged, error]. returned is the object
\* the promise resolves to (Undefined when it rejects), ctx the object that was
\* passed in as the call leaves it, calls the hook functions invoked.
executeHook(hooks, hookName, ctx, logger) ==
    LET NoHook == [returned |-> SameObject(ctx), ctx |-> ctx, calls |-> <<>>,
                   logged |-> 0, error |-> NoError]
        Ran(e) ==
            IF e.error # NoError
            THEN [returned |-> Undefined, ctx |-> e.ctx, calls |-> <<hookName>>,
                  logged |-> IF logger THEN 1 ELSE 0, error |-> e.error]
            ELSE [returned |-> SameObject(e.ctx), ctx |-> e.ctx, calls |-> <<hookName>>,
                  logged |-> 0, error |-> NoError]
    IN  IF ~hooks.present THEN NoHook
        ELSE IF hookName \notin DOMAIN hooks.fns THEN NoHook
        ELSE Ran(HookFunctionEffect(hooks.fns[hookName], ctx))

\* One call of executeHook on inputs of the caller's choosing.
ExecuteHookCall(hooks, hookName, ctx, logger) ==
    /\ req.pc = "idle"
    /\ req' = [pc |-> "hook", hooks |-> hooks, hookName |-> hookName, ctx |-> ctx,
               logger |-> logger, out |-> executeHook(hooks, hookName, ctx, logger)]
    /\ UNCHANGED <<perm, fp, qb, store>>

\* The caller has taken the context or the error; the next call may start.
ExecuteHookReturn ==
    /\ req.pc = "hook"
    /\ req' = Idle
    /\ UNCHANGED <<perm, fp, qb, store>>

InitHook ==
    /\ perm = Idle
    /\ fp = Idle
    /\ qb = Idle
    /\ req = Idle
    /\ store = NoCalls

NextHook ==
    \/ ExecuteHookReturn
    \/ req.pc = "idle" /\ \E hooks \in HookSets, hookName \in HookNames,
                              ctx \in HookContexts, logger \in BOOLEAN :
                              ExecuteHookCall(hooks, hookName, ctx, logger)

SpecHook == InitHook /\ [][NextHook]_vars

\* the call found nothing to run: no hook set, or none for the stage
NothingToRun ==
    /\ req.pc = "hook"
    /\ ~req.hooks.present \/ req.hookName \notin DOMAIN req.hooks.fns

\* C30: with no hook set, or with a hook set that has no function for the
\* stage asked for, executeHook resolves to the very object it was given (not
\* a copy), every field of it is as it was, no hook function is called and
\* nothing is thrown or logged.
C30_NoHookNoOp ==
    NothingToRun =>
        /\ req.out.returned = req.ctx
        /\ req.out.ctx = req.ctx
        /\ req.out.calls = <<>>
        /\ req.out.error = NoError
        /\ req.out.logged = 0

C30_Witness ==
    /\ NothingToRun
    /\ req.hooks.present
    /\ \E n \in DOMAIN req.hooks.fns : req.hooks.fns[n] = "rewrite"
    /\ req.ctx.data = ObjectBody(<<S.name>>)
    /\ req.out.returned = req.ctx

(***************************************************************************)
(* CONCURRENT REQUESTS (crud-operations: createCtx, listDocuments,         *)
(* createDocument, deleteDocument): two requests in flight over one        *)
(* collection. Here req holds the requests of the clients and the objects  *)
(* they allocated, store the records of the collection.                    *)
(***************************************************************************)

\* the clients whose requests are in flight together
Clients == {"a", "b"}

\* the most records the collection holds
MaxRecords == 2
RecordIds == 1..MaxRecords

\* values by their origin: what a client sent, what a client's hook wrote,
\* what was in the collection before
Sent(c) == [from |-> "request", client |-> c, docs |-> <<>>]
HookValue(c) == [from |-> "hook", client |-> c, docs |-> <<>>]
Seed == [from |-> "seed", client |-> "none", docs |-> <<>>]
\* the documents the store answered with
Stored(docs) == [from |-> "store", client |-> "none", docs |-> docs]
\* undefined
Absent == [from |-> "undefined", client |-> "none", docs |-> <<>>]

Record(id, data) == [id |-> id, data |-> data]
NoObject == 0


\* a module-level object handed to every caller
SharedObject(heap) == 1

\* an object literal evaluates to a new object each time
FreshObject(heap) == Len(heap) + 1

\* the heap once the object ref holds the value
Allocated(heap, ref, value) ==
    IF ref > Len(heap) THEN Append(heap, value) ELSE [heap EXCEPT ![ref] = value]

\* buildQuery returns a new descriptor: { filter, skip, limit }
QueryObject(filter, pagination) ==
    [kind |-> "query", filter |-> filter, skip |-> pagination.skip,
     limit |-> pagination.limit]

\* createCtx returns a new context: { query, data, result, meta: {} }
CtxObject(query, data) ==
    [kind |-> "ctx", query |-> query, data |-> data, result |-> Absent,
     meta |-> {}, preventDefault |-> FALSE]

\* the records a filter matches (an empty filter matches all)
Matching(records, filter) ==
    {rec \in records : filter.from = "request" \/ rec.data = filter}

RECURSIVE ById(_)
ById(records) ==
    IF records = {} THEN <<>>
    ELSE LET first == CHOOSE rec \in records : \A other \in records : rec.id <= other.id
         IN  <<first>> \o ById(records \ {first})

\* model.find(filter).skip(skip).limit(limit).exec()
FindDocs(records, query) ==
    LET all == ById(Matching(records, query.filter))
        last == IF query.skip + query.limit < Len(all) THEN query.skip + query.limit
                ELSE Len(all)
    IN  SubSeq(all, query.skip + 1, last)

\* model.countDocuments(filter).exec()
CountDocs(records, query) == Cardinality(Matching(records, query.filter))

\* the requests of a client: lists with a limit, creates, deletes by id; a
\* before hook may write to its context or set preventDefault, an after hook
\* may replace the result
ClientRequests ==
    {[op |-> "list", query |-> <<Param(S.limit, StrV(<<lm>>))>>, id |-> 0,
      before |-> b, after |-> af] :
        lm \in {"1", "2"}, b \in {"none", "mutate", "prevent"}, af \in {"none", "mutate"}}
    \cup {[op |-> op, query |-> <<>>, id |-> id, before |-> b, after |-> af] :
        op \in {"delete"}, id \in RecordIds,
        b \in {"none", "mutate", "prevent"}, af \in {"none", "mutate"}}
    \cup {[op |-> "create", query |-> <<>>, id |-> 0, before |-> b, after |-> af] :
        b \in {"none", "mutate", "prevent"}, af \in {"none", "mutate"}}

NoClientResponse == [status |-> -1, data |-> Absent, meta |-> NoMeta]
ClientIdle == [pc |-> "idle"]

\* creates accepted and not yet written
PendingCreates ==
    Cardinality({c \in Clients : req.of[c].pc \in {"before", "store"}
                                    /\ req.of[c].in.op = "create"})

\* A client's request enters its operation: listDocuments builds the query
\* descriptor, every operation creates its hook context.
ClientRequest(c, r) ==
    /\ req.of[c].pc = "idle"
    /\ r.op = "create" => Cardinality(store) + PendingCreates < MaxRecords
    /\ LET queryRef == IF r.op = "list" THEN FreshObject(req.heap) ELSE NoObject
           withQuery == IF r.op = "list"
                        THEN Allocated(req.heap, queryRef,
                                       QueryObject(Sent(c),
                                           parsePagination(r.query, DEFAULT_LIMIT,
                                                           DEFAULT_MAX_LIMIT)))
                        ELSE req.heap
           ctxRef == FreshObject(withQuery)
           data == IF r.op = "create" THEN Sent(c) ELSE Absent
       IN  req' = [req EXCEPT
                     !.heap = Allocated(withQuery, ctxRef, CtxObject(queryRef, data)),
                     !.of[c] = [pc |-> "before", in |-> r, mongoQuery |-> queryRef,
                                ctx |-> ctxRef, pending |-> {}, input |-> Absent,
                                docs |-> <<>>, total |-> -1, error |-> NoError,
                                statusCode |-> -1, response |-> NoClientResponse]]
    /\ UNCHANGED <<perm, fp, qb, store>>

\* await runHook(config.hooks, 'before...', ctx): the hook of this request
\* writes to the context it was given, and to the query descriptor through it
ClientBeforeHook(c) ==
    /\ req.of[c].pc = "before"
    /\ LET me == req.of[c]
           ctx == req.heap[me.ctx]
           written == IF me.in.before = "mutate"
                      THEN [ctx EXCEPT !.meta = @ \cup {HookValue(c)},
                                       !.data = IF me.in.op = "create" THEN HookValue(c)
                                                ELSE @]
                      ELSE IF me.in.before = "prevent"
                      THEN [ctx EXCEPT !.preventDefault = TRUE]
                      ELSE ctx
           heap == [req.heap EXCEPT ![me.ctx] = written]
           mutated == IF me.in.before = "mutate" /\ ctx.query # NoObject
                      THEN [heap EXCEPT ![ctx.query].filter = HookValue(c)]
                      ELSE heap
       IN  req' = IF mutated[me.ctx].preventDefault
                  THEN [req EXCEPT !.heap = mutated, !.of[c].pc = "respond",
                                   !.of[c].statusCode = 0]
                  ELSE [req EXCEPT !.heap = mutated, !.of[c].pc = "store",
                                   !.of[c].pending =
                                       IF me.in.op = "list" THEN {"find", "countDocuments"}
                                       ELSE {"write"}]
    /\ UNCHANGED <<perm, fp, qb, store>>

\* the descriptor the store is asked with: ctx.query ?? mongoQuery
FinalQuery(heap, me) ==
    IF heap[me.ctx].query # NoObject THEN heap[heap[me.ctx].query] ELSE heap[me.mongoQuery]

\* One of the two reads of Promise.all([find..., countDocuments...]) reaches
\* the store; each sees the collection as it is at that moment. When both have
\* answered, ctx.result = docs.
ClientStoreRead(c, method) ==
    /\ req.of[c].pc = "store"
    /\ method \in req.of[c].pending
    /\ method \in {"find", "countDocuments"}
    /\ LET me == req.of[c]
           query == FinalQuery(req.heap, me)
           docs == IF method = "find" THEN FindDocs(store, query) ELSE me.docs
           total == IF method = "countDocuments" THEN CountDocs(store, query) ELSE me.total
           joined == me.pending = {method}
       IN  req' = [req EXCEPT
                     !.of[c].pending = @ \ {method},
                     !.of[c].input = query.filter,
                     !.of[c].docs = docs,
                     !.of[c].total = total,
                     !.of[c].pc = IF joined THEN "after" ELSE @,
                     !.heap = IF joined THEN [@ EXCEPT ![me.ctx].result = Stored(docs)]
                              ELSE @]
    /\ UNCHANGED <<perm, fp, qb, store>>

\* adapter create(ctx.data ?? data) and model.findByIdAndDelete(id): the write
\* of a create or delete reaches the store; a delete of a missing record is
\* NotFound, otherwise ctx.result = doc
ClientStoreWrite(c) ==
    /\ req.of[c].pc = "store"
    /\ "write" \in req.of[c].pending
    /\ LET me == req.of[c]
           ctx == req.heap[me.ctx]
           data == IF ctx.data = Absent THEN Sent(c) ELSE ctx.data
           free == CHOOSE id \in RecordIds :
                      /\ \A rec \in store : rec.id # id
                      /\ \A other \in RecordIds :
                            (\A rec \in store : rec.id # other) => id <= other
           found == {rec \in store : rec.id = me.in.id}
       IN  IF me.in.op = "create"
           THEN /\ store' = store \cup {Record(free, data)}
                /\ req' = [req EXCEPT !.of[c].pending = {}, !.of[c].input = data,
                                      !.of[c].docs = <<Record(free, data)>>,
                                      !.of[c].pc = "after",
                                      !.heap[me.ctx].result = Stored(<<Record(free, data)>>)]
           ELSE IF found = {}
           THEN /\ store' = store
                /\ req' = [req EXCEPT !.of[c].pending = {}, !.of[c].pc = "respond",
                                      !.of[c].error = NotFoundError("users", ToString(me.in.id))]
           ELSE /\ store' = store \ found
                /\ req' = [req EXCEPT !.of[c].pending = {}, !.of[c].docs = ById(found),
                                      !.of[c].pc = "after",
                                      !.heap[me.ctx].result = Stored(ById(found))]
    /\ UNCHANGED <<perm, fp, qb>>

\* await runHook(config.hooks, 'after...', ctx), then the operation returns
\* { statusCode, data: ctx.result ?? docs, meta }
ClientAfterHook(c) ==
    /\ req.of[c].pc = "after"
    /\ LET me == req.of[c]
       IN  req' = [req EXCEPT
                     !.heap[me.ctx] =
                         IF me.in.after = "mutate"
                         THEN [@ EXCEPT !.result = HookValue(c),
                                        !.meta = @ \cup {HookValue(c)}]
                         ELSE @,
                     !.of[c].pc = "respond",
                     !.of[c].statusCode = IF me.in.op = "create" THEN 201 ELSE 200]
    /\ UNCHANGED <<perm, fp, qb, store>>

\* The adapter answers: the error, nothing for status code 0, otherwise the
\* data and, for a list, buildPaginationMeta(total, page, limit).
ClientRespond(c) ==
    /\ req.of[c].pc = "respond"
    /\ LET me == req.of[c]
           ctx == req.heap[me.ctx]
           pagination == extractPagination(me.in.query, UndefV, UndefV)
           meta == IF me.in.op = "list"
                   THEN buildPaginationMeta(me.total, pagination.page, pagination.limit)
                   ELSE NoMeta
           data == IF ctx.result = Absent THEN Stored(me.docs) ELSE ctx.result
       IN  req' = [req EXCEPT
                     !.of[c].pc = "done",
                     !.of[c].response =
                         IF me.error # NoError
                         THEN [status |-> me.error.statusCode, data |-> Absent,
                               meta |-> NoMeta]
                         ELSE IF me.statusCode = 0 THEN NoClientResponse
                         ELSE [status |-> me.statusCode, data |-> data, meta |-> meta]]
    /\ UNCHANGED <<perm, fp, qb, store>>

\* the collections the requests may find: any records written earlier
SeedStores == {{Record(id, Seed) : id \in ids} : ids \in SUBSET RecordIds}

InitShared ==
    /\ perm = Idle
    /\ fp = Idle
    /\ qb = Idle
    /\ req = [pc |-> "clients", of |-> [c \in Clients |-> ClientIdle], heap |-> <<>>]
    /\ store \in SeedStores

NextShared ==
    \/ \E c \in Clients : req.of[c].pc = "idle" /\ \E r \in ClientRequests : ClientRequest(c, r)
    \/ \E c \in Clients : ClientBeforeHook(c)
    \/ \E c \in Clients, method \in {"find", "countDocuments"} : ClientStoreRead(c, method)
    \/ \E c \in Clients : ClientStoreWrite(c)
    \/ \E c \in Clients : ClientAfterHook(c)
    \/ \E c \in Clients : ClientRespond(c)

SpecShared == InitShared /\ [][NextShared]_vars

\* the clients with a request in flight or answered
Active == {c \in Clients : req.of[c].pc # "idle"}

\* the objects a request allocated
ObjectsOf(c) == {req.of[c].ctx, req.of[c].mongoQuery} \ {NoObject}

\* what only the hook of a request of client c can have written
OwnValues(c) == {Absent, Sent(c), HookValue(c)}

\* C31: under every interleaving of two requests, each request has a hook
\* context and a query descriptor that no other request has, and whatever a
\* hook wrote (data, query, meta, result, preventDefault) is seen only in the
\* context, the store input and the response of the hook's own request: a
\* request whose hooks write nothing finds its context, its store input and
\* its response as it and the store made them.
C31_RequestsIsolated ==
    \A c \in Active :
        LET me == req.of[c]
        IN  /\ me.ctx # NoObject /\ me.ctx # me.mongoQuery
            /\ (me.in.op = "list") = (me.mongoQuery # NoObject)
            /\ \A d \in Active \ {c} : ObjectsOf(c) \cap ObjectsOf(d) = {}
            /\ req.heap[me.ctx].kind = "ctx"
            /\ LET ctx == req.heap[me.ctx]
               IN  /\ ctx.data \in OwnValues(c)
                   /\ ctx.meta \subseteq {HookValue(c)}
                   /\ ctx.result.from \in {"undefined", "store"} \/ ctx.result = HookValue(c)
                   /\ me.input \in OwnValues(c)
                   /\ me.response.data.from \in {"undefined", "store"}
                        \/ me.response.data = HookValue(c)
                   /\ ctx.query = me.mongoQuery
                   /\ me.mongoQuery # NoObject =>
                        /\ req.heap[me.mongoQuery].kind = "query"
                        /\ req.heap[me.mongoQuery].filter \in {Sent(c), HookValue(c)}
                        /\ me.in.before # "mutate" => req.heap[me.mongoQuery].filter = Sent(c)
                   /\ ctx.preventDefault => me.in.before = "prevent"
                   /\ me.statusCode = 0 => me.in.before = "prevent"
                   /\ me.in.before # "mutate" =>
                        /\ ctx.data \in {Absent, Sent(c)}
                        /\ me.input \in {Absent, Sent(c)}
                        /\ ctx.meta # {} => me.in.after = "mutate"
                   /\ me.in.after # "mutate" =>
                        /\ ctx.result # HookValue(c)
                        /\ me.response.data # HookValue(c)
                   /\ (me.in.before # "mutate" /\ me.in.after # "mutate") => ctx.meta = {}

\* the hook of one request has written to its context and query descriptor
\* while a request without hooks is in flight, and both were answered
C31_Witness ==
    /\ Active = Clients
    /\ req.of["a"].in.op = "list" /\ req.of["a"].in.before = "mutate"
    /\ req.of["a"].in.after = "mutate"
    /\ req.of["b"].in.op = "list" /\ req.of["b"].in.before = "none"
    /\ req.of["b"].in.after = "none"
    /\ req.heap[req.of["a"].mongoQuery].filter = HookValue("a")
    /\ req.heap[req.of["a"].ctx].meta = {HookValue("a")}
    /\ req.of["b"].ctx > req.of["a"].ctx
    /\ req.of["a"].pc = "done" /\ req.of["a"].response.data = HookValue("a")
    /\ req.of["b"].pc = "done" /\ req.of["b"].response.data.from = "store"
    /\ req.of["b"].input = Sent("b")

Min(a, b) == IF a <= b THEN a ELSE b

\* C33: in every list response, also when another request creates or
\* deletes records at the same time, the number of records returned is at
\* most min(limit, meta.total).
C33_FetchAndCountAgree ==
    \A c \in Active :
        (/\ req.of[c].pc = "done" /\ req.of[c].in.op = "list"
         /\ req.of[c].response.status = 200 /\ req.of[c].in.after = "none")
            => Len(req.of[c].response.data.docs)
                  <= Min(req.of[c].response.meta.limit, req.of[c].response.meta.total)

====
